---- MODULE Spec2Model ----
(***************************************************************************)
(* A model of retriever's incremental recomputation engine: the            *)
(* change-tracked vector (RVec), the multi-layer Reduce engine, the        *)
(* Summarize engine, and the Storage / Reduction / SecondaryIndex layer    *)
(* built on them.                                                          *)
(*                                                                         *)
(* Conventions: Rust's Option<T> is a sequence of length 0 (None) or 1     *)
(* (Some(x)); Rust's 0-based index i is position i + 1 of a TLA+ sequence. *)
(***************************************************************************)
EXTENDS Integers, Sequences, FiniteSets, TLC

None == <<>>
Some(x) == <<x>>
IsSome(o) == Len(o) = 1
Unwrap(o) == o[1]

Max(a, b) == IF a >= b THEN a ELSE b
Min(a, b) == IF a <= b THEN a ELSE b

(***************************************************************************)
(* rvec.rs                                                                 *)
(***************************************************************************)
SCALE == 16
STRIDE == << SCALE,
             SCALE * SCALE,
             SCALE * SCALE * SCALE,
             SCALE * SCALE * SCALE * SCALE,
             SCALE * SCALE * SCALE * SCALE * SCALE >>
Levels == 1..5

\* Vec::resize(n, fill): truncate or extend with fill.
VecResize(v, n, fill) ==
  IF n <= Len(v) THEN SubSeq(v, 1, n)
  ELSE v \o [k \in 1..(n - Len(v)) |-> fill]

\* resize_to_fit(counts, len)
resize_to_fit(counts, len) ==
  [L \in Levels |-> VecResize(counts[L], (len \div STRIDE[L]) + 1, 0)]

\* impl From<Vec<T>> for RVec<T>, with the id drawn from ID_COUNTER.
\* `touched` is a history field, not program state: touched[i + 1] is the
\* counter value of the most recent touch of index i (0 when never touched).
RVecFrom(data, id) ==
  [ id |-> id,
    parent_id |-> None,
    parent_count |-> 0,
    data |-> data,
    count |-> 0,
    counts |-> resize_to_fit([L \in Levels |-> <<>>], Len(data)),
    touched |-> <<>> ]

RVecDefault(id) == RVecFrom(<<>>, id)

\* A touch that stamps the finest level only.
touch_finest_only(rv, i) ==
  LET grown == IF (i \div STRIDE[1]) + 1 > Len(rv.counts[1])
               THEN [L \in Levels |->
                       VecResize(rv.counts[L],
                                 Max(Len(rv.counts[L]), (i \div STRIDE[L]) + 1), 0)]
               ELSE rv.counts
      c == rv.count + 1
  IN [rv EXCEPT !.count = c,
                !.counts = [grown EXCEPT ![1][(i \div STRIDE[1]) + 1] = c],
                !.touched = [VecResize(rv.touched, Max(Len(rv.touched), i + 1), 0)
                               EXCEPT ![i + 1] = c]]

\* RVec::touch(i)
touch(rv, i) ==
  LET grown == IF (i \div STRIDE[1]) + 1 > Len(rv.counts[1])
               THEN [L \in Levels |->
                       VecResize(rv.counts[L],
                                 Max(Len(rv.counts[L]), (i \div STRIDE[L]) + 1), 0)]
               ELSE rv.counts
      c == rv.count + 1
  IN [rv EXCEPT !.count = c,
                !.counts = [L \in Levels |->
                              [grown[L] EXCEPT ![(i \div STRIDE[L]) + 1] = c]],
                !.touched = [VecResize(rv.touched, Max(Len(rv.touched), i + 1), 0)
                               EXCEPT ![i + 1] = c]]

\* RVec::push(t)
push(rv, t) == touch([rv EXCEPT !.data = Append(rv.data, t)], Len(rv.data))

\* Vec::swap_remove(i): the last element takes the place of element i.
VecSwapRemove(v, i) ==
  LET n == Len(v)
  IN [k \in 1..(n - 1) |-> IF k = i + 1 THEN v[n] ELSE v[k]]

\* RVec::swap_remove(i)
\* A swap_remove that touches the removed index only.
swap_remove_single_touch(rv, i) ==
  [touch(rv, i) EXCEPT !.data = VecSwapRemove(rv.data, i)]

\* RVec::swap_remove(i)

swap_remove(rv, i) ==
  LET t1 == touch(rv, Len(rv.data) - 1)
      t2 == touch(t1, i)
  IN [t2 EXCEPT !.data = VecSwapRemove(rv.data, i)]

\* IndexMut::index_mut(i) followed by the assignment of t.
index_mut_assign(rv, i, t) ==
  LET t1 == touch(rv, i)
  IN [t1 EXCEPT !.data[i + 1] = t]

\* for i in lo..hi { self.touch(i) }
RECURSIVE TouchRange(_, _, _)
TouchRange(rv, lo, hi) ==
  IF lo >= hi THEN rv ELSE TouchRange(touch(rv, lo), lo + 1, hi)

\* RVec::resize_touch(new_size): the loop runs over data.len()..new_size
\* after data has already been resized.
resize_touch(rv, new_size, dflt) ==
  LET r1 == [rv EXCEPT !.counts = resize_to_fit(rv.counts, new_size),
                       !.data = VecResize(rv.data, new_size, dflt)]
  IN TouchRange(r1, Len(r1.data), new_size)

\* A reset that forgets the parent but keeps contents and counters.
reset_keeping_contents(rv, nid) == [rv EXCEPT !.parent_id = None]

\* RVec::reset(): *self = RVec::from(vec![]), which draws a fresh id.
reset(rv, nid) == RVecDefault(nid)

\* RVec::validate_parent_id(source); returns the vector and the id counter.
validate_parent_id(rv, source, nid) ==
  LET mismatch == IsSome(rv.parent_id) /\ Unwrap(rv.parent_id) # source.id
      r1 == IF mismatch THEN reset(rv, nid) ELSE rv
      r2 == IF r1.parent_id = None THEN [r1 EXCEPT !.parent_id = Some(source.id)] ELSE r1
  IN [rv |-> r2, nid |-> IF mismatch THEN nid + 1 ELSE nid, was_reset |-> mismatch]

\* The checkpoint walk of RVec::reduce: the list needs_recalc, starting at i.
RECURSIVE FinestPush(_, _, _)
FinestPush(i, stop, gs) ==
  IF i < stop
  THEN LET r == FinestPush(((i \div gs) + 1) * gs, stop, gs)
       IN [i |-> r.i, out |-> <<i \div gs>> \o r.out]
  ELSE [i |-> i, out |-> <<>>]

RECURSIVE FinestSkip(_, _)
FinestSkip(i, stop) == IF i < stop THEN FinestSkip(i + 1, stop) ELSE i

RECURSIVE Walk(_, _, _, _)
Walk(source, expected_count, gs, i) ==
  IF ~(i < Len(source.data)) THEN <<>>
  ELSE
    LET cp(L) == source.counts[L][(i \div STRIDE[L]) + 1]
        next(L) == ((i \div STRIDE[L]) + 1) * STRIDE[L]
    IN IF cp(5) <= expected_count THEN Walk(source, expected_count, gs, next(5))
       ELSE IF cp(4) <= expected_count THEN Walk(source, expected_count, gs, next(4))
       ELSE IF cp(3) <= expected_count THEN Walk(source, expected_count, gs, next(3))
       ELSE IF cp(2) <= expected_count THEN Walk(source, expected_count, gs, next(2))
       ELSE IF cp(1) > expected_count
            THEN LET f == FinestPush(i, next(1), gs)
                 IN f.out \o Walk(source, expected_count, gs, f.i)
            ELSE Walk(source, expected_count, gs, FinestSkip(i, next(1)))

\* A walk that lists every group, whatever the checkpoints say.
needs_recalc_every_group(source, expected_count, gs) ==
  [g \in 1..((Len(source.data) + gs - 1) \div gs) |-> g - 1]

needs_recalc(source, expected_count, gs) == Walk(source, expected_count, gs, 0)

\* RVec::reduce(source, group_size, op) is modelled in stages, each stage an
\* operator over the values the stages before it computed.  op names the
\* FnMut closure the caller passes; ApplyOp(op, xs, old, i, acc) calls it and
\* returns [ret |-> Option<T>, acc |-> the closure's captured state
\* afterwards].  The closures, and ApplyOp with them, are defined with their
\* callers below; the declaration here lets the stages name ApplyOp.
RECURSIVE ApplyOp(_, _, _, _, _)

\* A truncation loop that lets a Some pass.
reduce_truncate_unasserted(s1, new_size, op, acc0) ==
  LET ntrunc == Max(Len(s1.data) - new_size, 0)
      trunc[k \in 0..ntrunc] ==
        IF k = 0 THEN [acc |-> acc0, panic |-> FALSE, n |-> ntrunc]
        ELSE LET r == ApplyOp(op, <<>>, s1.data[new_size + k], new_size + k - 1,
                              trunc[k - 1].acc)
             IN [acc |-> r.acc, panic |-> FALSE, n |-> ntrunc]
  IN trunc[ntrunc]

\* Stage 2, the truncation loop: op(&[], &self.data[i], i) for every index
\* about to be cut off; assert!(none.is_none()) fails when op yields Some.
reduce_truncate(s1, new_size, op, acc0) ==
  LET ntrunc == Max(Len(s1.data) - new_size, 0)
      trunc[k \in 0..ntrunc] ==
        IF k = 0 THEN [acc |-> acc0, panic |-> FALSE, n |-> ntrunc]
        ELSE LET prev == trunc[k - 1]
                 i == new_size + k - 1
             IN IF prev.panic THEN prev
                ELSE LET r == ApplyOp(op, <<>>, s1.data[i + 1], i, prev.acc)
                     IN [acc |-> r.acc, panic |-> IsSome(r.ret), n |-> ntrunc]
  IN trunc[ntrunc]

\* Stage 4, the update loop over needs_recalc.
reduce_recalc(s2, cand, source, gs, op, acc0) ==
  LET source_length == Len(source.data)
      upd[k \in 0..Len(cand)] ==
        IF k = 0 THEN [rv |-> s2, acc |-> acc0, n |-> 0]
        ELSE LET prev == upd[k - 1]
                 i == cand[k]
             IN IF prev.n # k - 1 THEN prev
                ELSE LET r == ApplyOp(op, SubSeq(source.data, i * gs + 1,
                                        Min((i + 1) * gs, source_length)),
                                 prev.rv.data[i + 1], i, prev.acc)
                     IN [rv |-> IF IsSome(r.ret)
                                THEN index_mut_assign(prev.rv, i, Unwrap(r.ret))
                                ELSE prev.rv,
                         acc |-> r.acc,
                         n |-> k]
  IN upd[Len(cand)]

\* A finish that leaves parent_count as it was.
reduce_finish_stale_count(vp, tr, fin, source) ==
  [ rv |-> fin.rv,
    acc |-> fin.acc,
    nid |-> vp.nid,
    panic |-> tr.panic,
    ops |-> tr.n + fin.n,
    was_reset |-> vp.was_reset ]

\* Stage 5: self.parent_count = source.count.  The result carries the vector,
\* the closure's captured state, the id counter, whether the assertion
\* failed, and the number of op invocations.  A failed assertion unwinds out
\* of the truncation loop: the vector is as validate_parent_id left it and
\* the closure was not called again.
reduce_finish(vp, tr, fin, source) ==
  [ rv |-> IF tr.panic THEN vp.rv ELSE [fin.rv EXCEPT !.parent_count = source.count],
    acc |-> IF tr.panic THEN tr.acc ELSE fin.acc,
    nid |-> vp.nid,
    panic |-> tr.panic,
    ops |-> IF tr.panic THEN tr.n ELSE tr.n + fin.n,
    was_reset |-> vp.was_reset ]

\* Stage 3: resize_touch, then the checkpoint walk against parent_count.
reduce_walk(vp, tr, s2, source, gs, op) ==
  reduce_finish(vp, tr,
                reduce_recalc(s2,
                              SelectSeq(needs_recalc(source, s2.parent_count, gs),
                                        LAMBDA g : g < Len(s2.data)),
                              source, gs, op, tr.acc),
                source)

\* A reduce that cuts the vector down without telling op.
reduce_validated_silent_truncation(vp, new_size, source, gs, dflt, op, acc0) ==
  reduce_walk(vp,
              [acc |-> acc0, panic |-> FALSE, n |-> 0],
              resize_touch(vp.rv, new_size, dflt),
              source, gs, op)

\* Stage 2 and the resize: the truncation loop runs on the vector as
\* validate_parent_id left it, then resize_touch cuts or extends it.
reduce_validated(vp, new_size, source, gs, dflt, op, acc0) ==
  reduce_walk(vp,
              reduce_truncate(vp.rv, new_size, op, acc0),
              resize_touch(vp.rv, new_size, dflt),
              source, gs, op)

\* Stage 1: validate_parent_id, and the new size of the vector.
reduce(self, source, gs, dflt, op, acc0, nid0) ==
  reduce_validated(validate_parent_id(self, source, nid0),
                   (Len(source.data) + gs - 1) \div gs,
                   source, gs, dflt, op, acc0)

RECURSIVE SumSeq(_)
SumSeq(xs) == IF xs = <<>> THEN 0 ELSE xs[1] + SumSeq(Tail(xs))

(***************************************************************************)
(* The rules callers install.  A rule set is a record naming its closures: *)
(*   input: what map reads ("number": the element itself; "element": the   *)
(*          value X.1 of a record; "index_keys": the index closure)        *)
(*   map / fold: "changed" yields None when the result equals the stored   *)
(*          one, "always" yields Some unconditionally                      *)
(***************************************************************************)
\* reduce.rs and summarize.rs, mod test: fn summation_rules()
summation_rules == [name |-> "summation_rules", input |-> "number",
                    map |-> "changed", fold |-> "always"]

\* lib.rs crate docs: |puppy, _| Some(puppy.toys), |toys, _| Some(sum)
docs_rules == [name |-> "docs_rules", input |-> "element",
               map |-> "always", fold |-> "always"]

\* lib.rs test_random_edits: both closures yield None when unchanged
random_edits_rules == [name |-> "random_edits_rules", input |-> "element",
                       map |-> "changed", fold |-> "changed"]

\* lib.rs test_remove_and_replace_chunk_with_secondary_index:
\* |x: &X| Cow::Owned(Some(x.1 & 0x1))
index_closure(x) == Some(x.val % 2)

\* lib.rs test_index_intersections: |x: &X| Cow::Owned(Some(x.1 < 0x600)),
\* with the threshold among the preloaded values.
small_closure(x) == Some(IF x.val < 261 THEN 1 ELSE 0)

\* What a map closure computes from its input.
MapValue(rules, e) ==
  CASE rules.input = "number" -> e
    [] rules.input = "element" -> e.val
    [] rules.input = "index_keys" -> index_closure(e)
    [] rules.input = "small_keys" -> small_closure(e)

\* ReduceRules.map / SummaryRules.map
RuleMap(rules, e, old) ==
  IF rules.map = "changed" /\ MapValue(rules, e) = old THEN None
  ELSE Some(MapValue(rules, e))

\* ReduceRules.reduce
RuleFold(rules, ns, old_n) ==
  IF rules.fold = "changed" /\ SumSeq(ns) = old_n THEN None ELSE Some(SumSeq(ns))

(***************************************************************************)
(* reduce.rs                                                               *)
(***************************************************************************)
\* Reduce::new
ReduceNew(gs, id) == [reductions |-> << RVecDefault(id) >>, group_size |-> gs]

\* Reduce::peek; a terminal layer longer than 1 is panic!("bug in retriever").
peek(red) ==
  LET result_slice == red.reductions[Len(red.reductions)].data
  IN [value |-> IF Len(result_slice) = 1 THEN Some(result_slice[1]) ELSE None,
      panic |-> Len(result_slice) > 1]

\* The closure Reduce::update passes for layer 0.  env is what the closure
\* captures: the rules, and a count of rule invocations.
ReduceMapOp(xs, y, i, env) ==
  IF xs = <<>> THEN [ret |-> None, acc |-> env]
  ELSE [ret |-> RuleMap(env.rules, xs[1], y), acc |-> [env EXCEPT !.calls = @ + 1]]

\* The closure Reduce::update passes for the layers above.
ReduceFoldOp(xs, y, i, env) ==
  IF xs = <<>> THEN [ret |-> None, acc |-> env]
  ELSE [ret |-> RuleFold(env.rules, xs, y), acc |-> [env EXCEPT !.calls = @ + 1]]

\* The while loop of Reduce::update.  st carries the stack, the loop variable
\* `layer`, the id counter, the closures' environment, the number of closure
\* invocations, and whether a panic was raised.
RECURSIVE ReduceLayers(_, _)

\* One iteration, given the stack rs after the push of a missing layer and
\* the outcome r of reducing layer + 1 from layer.
ReduceLayerStep(st, rs, r, gs) ==
  ReduceLayers([reductions |-> [rs EXCEPT ![st.layer + 2] = r.rv],
                layer |-> st.layer + 1,
                nid |-> r.nid,
                env |-> r.acc,
                ops |-> st.ops + r.ops,
                panic |-> r.panic],
               gs)

\* The same iteration reducing groups one element wider than group_size.
ReduceLayerGrown_wider_groups(st, rs, nid, gs) ==
  ReduceLayerStep(st, rs,
                  reduce(rs[st.layer + 2], rs[st.layer + 1], gs + 1, 0, "ReduceFoldOp",
                         st.env, nid),
                  gs)

\* One iteration of the loop: the layer above is reduced from the layer below
\* in groups of group_size.
ReduceLayerGrown(st, rs, nid, gs) ==
  ReduceLayerStep(st, rs,
                  reduce(rs[st.layer + 2], rs[st.layer + 1], gs, 0, "ReduceFoldOp",
                         st.env, nid),
                  gs)

ReduceLayers(st, gs) ==
  IF st.panic \/ ~(Len(st.reductions[st.layer + 1].data) > 1) THEN st
  ELSE IF Len(st.reductions) = st.layer + 1
       THEN ReduceLayerGrown(st, Append(st.reductions, RVecDefault(st.nid)), st.nid + 1, gs)
       ELSE ReduceLayerGrown(st, st.reductions, st.nid, gs)

\* The tail of Reduce::update without the truncate.
ReduceUpdated_no_truncate(red, st, was_reset) ==
  [red |-> [red EXCEPT !.reductions = st.reductions],
   nid |-> st.nid, calls |-> st.env.calls, ops |-> st.ops,
   panic |-> st.panic \/ Len(st.reductions[st.layer + 1].data) > 1,
   was_reset |-> was_reset]

\* The tail of Reduce::update: reductions.truncate(layer + 1).
ReduceUpdated(red, st, was_reset) ==
  [red |-> [red EXCEPT !.reductions = SubSeq(st.reductions, 1, st.layer + 1)],
   nid |-> st.nid, calls |-> st.env.calls, ops |-> st.ops,
   panic |-> st.panic \/ Len(st.reductions[st.layer + 1].data) > 1,
   was_reset |-> was_reset]

\* The head of Reduce::update: r0 is the outcome for layer 0.
ReduceLayer0(red, r0) ==
  ReduceUpdated(red,
                ReduceLayers([reductions |-> [red.reductions EXCEPT ![1] = r0.rv],
                              layer |-> 0, nid |-> r0.nid, env |-> r0.acc,
                              ops |-> r0.ops, panic |-> r0.panic],
                             red.group_size),
                r0.was_reset)

\* Reduce::update(parent)
ReduceUpdate(red, parent, rules, nid) ==
  IF Len(parent.data) = 0
  THEN ReduceLayer0(red, [rv |-> RVecDefault(nid), acc |-> [rules |-> rules, calls |-> 0],
                          nid |-> nid + 1, panic |-> FALSE, ops |-> 0,
                          was_reset |-> FALSE])
  ELSE ReduceLayer0(red, reduce(red.reductions[1], parent, 1, 0, "ReduceMapOp",
                                [rules |-> rules, calls |-> 0], nid))

(***************************************************************************)
(* bits/bitfield.rs, bits/bitset.rs                                        *)
(*                                                                         *)
(* A Bitfield is [start |-> block number, bits |-> the set of positions    *)
(* 0..BITS-1 that are set]; a Bitset is the sorted Vec<Bitfield>.  A map   *)
(* (HashMap) is a function whose domain is the set of its keys.            *)
(***************************************************************************)
BITS == 64

\* Bitfield::new(i)
BitfieldNew(i) == [start |-> i \div BITS, bits |-> {i % BITS}]

\* Position of the Bitfield of block b in a Bitset, or 0: binary_search_by_key.
BitsetFind(bs, b) ==
  IF \E k \in 1..Len(bs) : bs[k].start = b
  THEN CHOOSE k \in 1..Len(bs) : bs[k].start = b
  ELSE 0

\* Bitset::set(i)
BitsetSet(bs, i) ==
  LET k == BitsetFind(bs, i \div BITS)
      at == Cardinality({j \in 1..Len(bs) : bs[j].start < i \div BITS})
  IN IF k # 0 THEN [bs EXCEPT ![k].bits = @ \cup {i % BITS}]
     ELSE SubSeq(bs, 1, at) \o << BitfieldNew(i) >> \o SubSeq(bs, at + 1, Len(bs))

BitsetUnset_whole_block(bs, i) ==
  SelectSeq(bs, LAMBDA bf : bf.start # i \div BITS)

\* Bitset::unset(i): the Bitfield stays in the Vec even when it has no bit left.
BitsetUnset(bs, i) ==
  LET k == BitsetFind(bs, i \div BITS)
  IN IF k # 0 THEN [bs EXCEPT ![k].bits = @ \ {i % BITS}] ELSE bs

\* Bitset::is_empty(): self.bits.len() == 0
BitsetIsEmpty(bs) == Len(bs) = 0

\* Bitfield::clip(range): unset(i) asserts that i lies in the Bitfield's block.
BitfieldClip(bf, lo, hi) ==
  IF hi < bf.start \/ lo >= bf.start + BITS
  THEN [bf |-> [bf EXCEPT !.bits = {}], panic |-> FALSE]
  ELSE LET unset == (bf.start..(lo - 1)) \cup (hi..(bf.start + BITS - 1))
       IN [bf |-> [bf EXCEPT !.bits = @ \ {i % BITS : i \in unset}],
           panic |-> \E i \in unset : i \div BITS # bf.start]

\* Bitfield::from_range over the block b of the range 0..len.
BitfieldFromRange(b, len) ==
  [start |-> b, bits |-> {p \in 0..(BITS - 1) : b * BITS + p < len}]

\* Bitfield::intersect
BitfieldIntersect(x, y) ==
  [start |-> x.start, bits |-> IF x.start = y.start THEN x.bits \cap y.bits ELSE {}]

\* BitfieldIter: the indices of a Bitfield in increasing order.
RECURSIVE SetToSeq(_)
SetToSeq(S) ==
  IF S = {} THEN <<>>
  ELSE LET m == CHOOSE x \in S : \A y \in S : x <= y
       IN << m >> \o SetToSeq(S \ {m})

BitfieldIdxs(bf) == SetToSeq({bf.start * BITS + p : p \in bf.bits})

\* usize::trailing_zeros / leading_zeros of a word given as its set of bits.
TrailingZeros(bits) ==
  IF bits = {} THEN BITS ELSE CHOOSE p \in bits : \A q \in bits : p <= q

\* The leading zeros of a word are the trailing zeros of its bit reversal.
LeadingZeros(bits) == TrailingZeros({BITS - 1 - p : p \in bits})

\* bits >> n and bits << n, for n < BITS.
Shr(bits, n) == {p - n : p \in {q \in bits : q >= n}}

Shl(bits, n) == {p + n : p \in {q \in bits : q + n < BITS}}

\* Bitfield::get(i), for i in the Bitfield's block.
BitfieldGet(bf, i) == (i % BITS) \in bf.bits

\* Bitfield::ones()
BitfieldOnes(bf) == Cardinality(bf.bits)

\* Bitfield::into_iter()
BitfieldIntoIter(bf) ==
  [start |-> bf.start * BITS, bits |-> bf.bits,
   front |-> TrailingZeros(bf.bits), back |-> LeadingZeros(bf.bits)]

\* BitfieldIter::next: [ret |-> the Option yielded, it |-> the iterator after].
BitfieldIterNext(it) ==
  IF it.front < BITS - it.back
  THEN [ret |-> Some(it.start + it.front),
        it |-> [it EXCEPT !.front =
                  IF it.front + 1 < BITS
                  THEN it.front + 1 + TrailingZeros(Shr(it.bits, it.front + 1))
                  ELSE it.front + 1]]
  ELSE [ret |-> None, it |-> it]

BitfieldIterNextBack_no_skip(it) ==
  IF it.front < BITS - it.back
  THEN [ret |-> Some(it.start + BITS - (it.back + 1)),
        it |-> [it EXCEPT !.back = it.back + 1]]
  ELSE [ret |-> None, it |-> it]

\* BitfieldIter::next_back
BitfieldIterNextBack(it) ==
  IF it.front < BITS - it.back
  THEN [ret |-> Some(it.start + BITS - (it.back + 1)),
        it |-> [it EXCEPT !.back =
                  IF it.back + 1 < BITS
                  THEN it.back + 1 + LeadingZeros(Shl(it.bits, it.back + 1))
                  ELSE it.back + 1]]
  ELSE [ret |-> None, it |-> it]

\* A BitfieldIter run to its end from the front: what collect() gathers.
RECURSIVE BitfieldIterCollect(_)
BitfieldIterCollect(it) ==
  IF IsSome(BitfieldIterNext(it).ret)
  THEN << Unwrap(BitfieldIterNext(it).ret) >> \o BitfieldIterCollect(BitfieldIterNext(it).it)
  ELSE <<>>

\* A BitfieldIter run to its end from the back: what rev().collect() gathers.
RECURSIVE BitfieldIterCollectRev(_)
BitfieldIterCollectRev(it) ==
  IF IsSome(BitfieldIterNextBack(it).ret)
  THEN << Unwrap(BitfieldIterNextBack(it).ret) >>
         \o BitfieldIterCollectRev(BitfieldIterNextBack(it).it)
  ELSE <<>>

\* Bitset::get(i)
BitsetGet(bs, i) ==
  IF BitsetFind(bs, i \div BITS) # 0
  THEN BitfieldGet(bs[BitsetFind(bs, i \div BITS)], i)
  ELSE FALSE

\* Bitset::len()
BitsetLen(bs) == SumSeq([k \in 1..Len(bs) |-> BitfieldOnes(bs[k])])

\* Bitset::iter().flatten().collect(): BitsetIter yields the Bitfields from
\* front to back, and Flatten runs the BitfieldIter of each.
RECURSIVE BitsetIterFlatten(_)
BitsetIterFlatten(bs) ==
  IF bs = <<>> THEN <<>>
  ELSE BitfieldIterCollect(BitfieldIntoIter(Head(bs))) \o BitsetIterFlatten(Tail(bs))

\* Bitset::iter().flatten().rev().collect()
RECURSIVE BitsetIterFlattenRev(_)
BitsetIterFlattenRev(bs) ==
  IF bs = <<>> THEN <<>>
  ELSE BitfieldIterCollectRev(BitfieldIntoIter(bs[Len(bs)]))
         \o BitsetIterFlattenRev(SubSeq(bs, 1, Len(bs) - 1))

(***************************************************************************)
(* Bitset { bits: Arc<Vec<Bitfield>> }.  The heap maps the id of each live *)
(* Arc allocation to [vec |-> its Vec<Bitfield>, strong |-> its strong     *)
(* count]; a Bitset is [bits |-> the id of its allocation].                *)
(***************************************************************************)
\* The id of a new allocation.
ArcFresh(h) == CHOOSE a \in 0..Cardinality(DOMAIN h) : a \notin DOMAIN h

\* Bitset::default(): [heap |-> the heap after, self |-> the Bitset].
ArcBitsetDefault(h) ==
  [heap |-> [x \in (DOMAIN h) \cup {ArcFresh(h)} |->
               IF x = ArcFresh(h) THEN [vec |-> <<>>, strong |-> 1] ELSE h[x]],
   self |-> [bits |-> ArcFresh(h)]]

\* Bitset::clone(): Arc::clone.
ArcBitsetClone(h, self) ==
  [heap |-> [h EXCEPT ![self.bits].strong = @ + 1], self |-> self]

\* Dropping a Bitset.
ArcBitsetDrop(h, self) ==
  IF h[self.bits].strong = 1 THEN [x \in (DOMAIN h) \ {self.bits} |-> h[x]]
  ELSE [h EXCEPT ![self.bits].strong = @ - 1]

ArcMakeMut_in_place(h, a) ==
  [heap |-> h, at |-> a]

\* Arc::make_mut(&mut self.bits): the allocation itself when it is not
\* shared, and a new allocation holding a copy of the Vec when it is.
ArcMakeMut(h, a) ==
  IF h[a].strong = 1 THEN [heap |-> h, at |-> a]
  ELSE [heap |-> [x \in (DOMAIN h) \cup {ArcFresh(h)} |->
                    IF x = ArcFresh(h) THEN [vec |-> h[a].vec, strong |-> 1]
                    ELSE IF x = a THEN [h[a] EXCEPT !.strong = @ - 1]
                    ELSE h[x]],
        at |-> ArcFresh(h)]

\* Bitset::set(i), on the allocation m that Arc::make_mut yields.
ArcBitsetSetIn(m, i) ==
  [heap |-> [m.heap EXCEPT ![m.at].vec = BitsetSet(@, i)], self |-> [bits |-> m.at]]

ArcBitsetSet(h, self, i) == ArcBitsetSetIn(ArcMakeMut(h, self.bits), i)

\* Bitset::unset(i): Arc::make_mut is reached only when the block is found.
ArcBitsetUnsetIn(m, i) ==
  [heap |-> [m.heap EXCEPT ![m.at].vec = BitsetUnset(@, i)], self |-> [bits |-> m.at]]

ArcBitsetUnset(h, self, i) ==
  IF BitsetFind(h[self.bits].vec, i \div BITS) # 0
  THEN ArcBitsetUnsetIn(ArcMakeMut(h, self.bits), i)
  ELSE [heap |-> h, self |-> self]

\* Bitset::from_iter(is)
RECURSIVE ArcBitsetFromIter(_, _)
ArcBitsetFromIter(r, is) ==
  IF is = <<>> THEN r
  ELSE ArcBitsetFromIter(ArcBitsetSet(r.heap, r.self, Head(is)), Tail(is))

\* A map without one of its keys: HashMap::remove.
MapRemove(m, k) == [x \in (DOMAIN m) \ {k} |-> m[x]]

\* A map with a key set: HashMap::insert.
MapInsert(m, k, val) == [x \in (DOMAIN m) \cup {k} |-> IF x = k THEN val ELSE m[x]]

EmptyMap == [x \in {} |-> 0]

(***************************************************************************)
(* summarize.rs, and the SummaryRules of queries/secondary_index.rs        *)
(***************************************************************************)
\* secondary_index.rs indexing_rules: IndexKeys = Option<u64>, the summary
\* is ChunkSecondaryIndex.reverse_index.
indexing_rules == [name |-> "indexing_rules", input |-> "index_keys",
                   map |-> "changed", fold |-> "always"]

\* The same rules around small_closure.
small_rules == [name |-> "indexing_rules", input |-> "small_keys",
                map |-> "changed", fold |-> "always"]

\* SummaryRules.contribute
Contribute(rules, token, i, summary) ==
  IF rules.name = "indexing_rules"
  THEN IF IsSome(token)
       THEN MapInsert(summary, Unwrap(token),
                      BitsetSet(IF Unwrap(token) \in DOMAIN summary
                                THEN summary[Unwrap(token)] ELSE <<>>, i))
       ELSE summary
  ELSE summary + token

\* An uncontribute that leaves the summary alone.
Uncontribute_nothing(rules, token, i, summary) == summary

\* SummaryRules.uncontribute
Uncontribute(rules, token, i, summary) ==
  IF rules.name = "indexing_rules"
  THEN IF IsSome(token) /\ Unwrap(token) \in DOMAIN summary
       THEN IF BitsetIsEmpty(BitsetUnset(summary[Unwrap(token)], i))
            THEN MapRemove(summary, Unwrap(token))
            ELSE MapInsert(summary, Unwrap(token),
                           BitsetUnset(summary[Unwrap(token)], i))
       ELSE summary
  ELSE summary - token

\* Summarize::new
SummarizeNew(id, summary0) == [tokens |-> RVecDefault(id), summary |-> summary0]

\* A call of contribute or uncontribute, as the history env.cb records it.
Callback(kind, token, i) == [kind |-> kind, token |-> token, i |-> i]

\* uncontribute(old_token, i, summary), then contribute(new_token, i,
\* summary), on the closure's captured state.
Uncontributed(env, old_token, i) ==
  [env EXCEPT !.summary = Uncontribute(env.rules, old_token, i, @),
              !.calls = @ + 1,
              !.cb = Append(@, Callback("uncontribute", old_token, i))]

Contributed(env, new_token, i) ==
  [env EXCEPT !.summary = Contribute(env.rules, new_token, i, @),
              !.calls = @ + 1,
              !.cb = Append(@, Callback("contribute", new_token, i))]

\* A closure that contributes and uncontributes default tokens too.
SummarizeOp_default_tokens(elements, old_token, i, env) ==
  IF elements = <<>>
  THEN [ret |-> None, acc |-> Uncontributed(env, old_token, i)]
  ELSE
    LET res == RuleMap(env.rules, elements[1], old_token)
        a0 == [env EXCEPT !.calls = @ + 1]
    IN [ret |-> res,
        acc |-> IF IsSome(res)
                THEN Contributed(Uncontributed(a0, old_token, i), Unwrap(res), i)
                ELSE a0]

\* A closure that says nothing when its index is truncated away.
SummarizeOp_silent_truncation(elements, old_token, i, env) ==
  IF elements = <<>>
  THEN [ret |-> None, acc |-> env]
  ELSE
    LET res == RuleMap(env.rules, elements[1], old_token)
        a0 == [env EXCEPT !.calls = @ + 1]
        a1 == IF IsSome(res) /\ old_token # env.dflt
              THEN Uncontributed(a0, old_token, i) ELSE a0
        a2 == IF IsSome(res) /\ Unwrap(res) # env.dflt
              THEN Contributed(a1, Unwrap(res), i) ELSE a1
    IN [ret |-> res, acc |-> a2]

\* The closure Summarize::update passes to tokens.reduce.  env is what the
\* closure captures: the rules, Token::default(), the summary, a count of
\* rule invocations and, as history, the callbacks issued.
SummarizeOp(elements, old_token, i, env) ==
  IF elements = <<>>
  THEN [ret |-> None,
        acc |-> IF old_token # env.dflt THEN Uncontributed(env, old_token, i) ELSE env]
  ELSE
    LET res == RuleMap(env.rules, elements[1], old_token)
        a0 == [env EXCEPT !.calls = @ + 1]
        a1 == IF IsSome(res) /\ old_token # env.dflt
              THEN Uncontributed(a0, old_token, i) ELSE a0
        a2 == IF IsSome(res) /\ Unwrap(res) # env.dflt
              THEN Contributed(a1, Unwrap(res), i) ELSE a1
    IN [ret |-> res, acc |-> a2]

SummarizeUpdated(r) ==
  [sm |-> [tokens |-> r.rv, summary |-> r.acc.summary],
   nid |-> r.nid, calls |-> r.acc.calls, ops |-> r.ops, panic |-> r.panic,
   was_reset |-> r.was_reset, cb |-> r.acc.cb]

\* Summarize::update(parent)
SummarizeUpdate(sm, parent, rules, dflt, nid) ==
  SummarizeUpdated(reduce(sm.tokens, parent, 1, dflt, "SummarizeOp",
                          [rules |-> rules, dflt |-> dflt, summary |-> sm.summary,
                           calls |-> 0, cb |-> <<>>],
                          nid))

(***************************************************************************)
(* types/chunk_storage.rs, types/storage.rs                                *)
(*                                                                         *)
(* An element is the record X(k, val) of lib.rs's tests.  Operations whose *)
(* code can panic return or set a panic flag.                              *)
(***************************************************************************)
\* lib.rs: impl Record<u64, u64> for X: (self.0 & 0x00F0) >> 4, and self.0
chunk_key(x) == (x.k % 256) \div 16

item_key(x) == x.k

X(k, val) == [k |-> k, val |-> val]

\* ChunkStorage::new(chunk_key); RVec::default() draws the id.
ChunkStorageNew(ck, id) == [chunk_key |-> ck, data |-> RVecDefault(id), index |-> EmptyMap]

\* ChunkStorage::add(element); a duplicate item key fails an assertion.
ChunkStorageAdd(cs, x) ==
  [cs |-> [cs EXCEPT !.index = MapInsert(@, item_key(x), Len(cs.data.data)),
                     !.data = push(@, x)],
   panic |-> item_key(x) \in DOMAIN cs.index]

\* ChunkStorage::remove_idx(idx)
remove_idx(cs, idx) ==
  LET d == swap_remove(cs.data, idx)
      ix == MapRemove(cs.index, item_key(cs.data.data[idx + 1]))
  IN [cs EXCEPT !.data = d,
                !.index = IF idx < Len(d.data)
                          THEN MapInsert(ix, item_key(d.data[idx + 1]), idx)
                          ELSE ix]

\* ChunkStorage::modify(&ID.chunk(..).item(k), |mut editor| editor.get_mut().1 = val)
ChunkStorageModify(cs, k, val) ==
  IF k \in DOMAIN cs.index
  THEN [cs EXCEPT !.data = index_mut_assign(@, cs.index[k],
                                            X(k, val))]
  ELSE cs

\* ChunkStorage::remove(&ID.chunk(..).item(k), drop)
ChunkStorageRemove(cs, k) ==
  IF k \in DOMAIN cs.index THEN remove_idx(cs, cs.index[k]) ELSE cs

\* Storage::new(); the id comes from storage.rs's own counter.
StorageNew(id) ==
  [id |-> 0, chunks |-> RVecDefault(id), dirty |-> <<>>, index |-> EmptyMap,
   panic |-> FALSE]

\* sort_unstable on the dirty list.
RECURSIVE sort_unstable(_)
sort_unstable(q) ==
  IF q = <<>> THEN <<>>
  ELSE LET k == CHOOSE i \in 1..Len(q) : \A j \in 1..Len(q) : q[i] <= q[j]
       IN << q[k] >> \o sort_unstable(SubSeq(q, 1, k - 1) \o SubSeq(q, k + 1, Len(q)))

\* The loop of Storage::clean over the sorted dirty list, last index first.
RECURSIVE CleanLoop(_, _)
CleanLoop(st, ds) ==
  IF ds = <<>> \/ st.panic THEN st
  ELSE LET idx == ds[Len(ds)]
           rest == SubSeq(ds, 1, Len(ds) - 1)
       IN IF idx >= Len(st.chunks.data) THEN [st EXCEPT !.panic = TRUE]
          ELSE IF Len(st.chunks.data[idx + 1].data.data) # 0 THEN CleanLoop(st, rest)
          ELSE LET cs == swap_remove(st.chunks, idx)
                   ix == MapRemove(st.index, st.chunks.data[idx + 1].chunk_key)
               IN CleanLoop([st EXCEPT !.chunks = cs,
                                       !.index = IF Len(cs.data) > idx
                                                 THEN MapInsert(ix, cs.data[idx + 1].chunk_key, idx)
                                                 ELSE ix],
                            rest)

\* Storage::clean()
clean(st) ==
  IF st.dirty = <<>> THEN st
  ELSE [CleanLoop(st, sort_unstable(st.dirty)) EXCEPT !.dirty = <<>>]

\* &mut self.chunks[idx]: IndexMut touches idx, then indexes the Vec.
ChunksIndexMut(st, idx) ==
  IF idx >= Len(st.chunks.data) THEN [st EXCEPT !.panic = TRUE]
  ELSE [st EXCEPT !.chunks = touch(@, idx)]

\* Storage::chunk(chunk_key, dirty); returns the storage, the index of the
\* chunk and the id counter.
chunk(st, ck, dirty, nid) ==
  LET found == ck \in DOMAIN st.index
      idx == IF found THEN st.index[ck] ELSE Len(st.chunks.data)
      s1 == IF found THEN st
            ELSE [st EXCEPT !.index = MapInsert(@, ck, idx),
                            !.chunks = push(@, ChunkStorageNew(ck, nid))]
      s2 == IF dirty THEN [s1 EXCEPT !.dirty = Append(@, idx)] ELSE s1
  IN [st |-> ChunksIndexMut(s2, idx), idx |-> idx,
      nid |-> IF found THEN nid ELSE nid + 1]

\* Apply a ChunkStorage operation's outcome to the chunk at c.idx.
WithChunk(c, out) ==
  [st |-> IF c.st.panic THEN c.st
          ELSE [c.st EXCEPT !.chunks.data[c.idx + 1] = out.cs, !.panic = out.panic],
   nid |-> c.nid]

\* Storage::add(element)
StorageAddTo(c, x) ==
  IF c.st.panic THEN [st |-> c.st, nid |-> c.nid]
  ELSE WithChunk(c, ChunkStorageAdd(c.st.chunks.data[c.idx + 1], x))

StorageAdd(st, x, nid) == StorageAddTo(chunk(clean(st), chunk_key(x), FALSE, nid), x)

\* Storage::modify(&ID.chunk(ck).item(k), |mut editor| editor.get_mut().1 = val)
StorageModifyAt(s1, idx, k, val) ==
  IF s1.panic THEN s1
  ELSE [s1 EXCEPT !.chunks.data[idx + 1] = ChunkStorageModify(@, k, val)]

StorageModifyIn(s0, ck, k, val) ==
  IF ck \in DOMAIN s0.index
  THEN StorageModifyAt(ChunksIndexMut(s0, s0.index[ck]), s0.index[ck], k, val)
  ELSE s0

StorageModify(st, ck, k, val) == StorageModifyIn(clean(st), ck, k, val)

\* Storage::entry(&X(k, 0)).and_modify(|x| x.1 = val)
StorageEntryModifyAt(c, k, val) ==
  [st |-> StorageModifyAt(c.st, c.idx, k, val), nid |-> c.nid]

StorageEntryModify(st, ck, k, val, nid) ==
  StorageEntryModifyAt(chunk(clean(st), ck, TRUE, nid), k, val)

\* Storage::remove(&ID.chunk(ck).item(k), drop)
StorageRemoveAt(s1, idx, k) ==
  IF s1.panic THEN s1
  ELSE clean([s1 EXCEPT !.chunks.data[idx + 1] = ChunkStorageRemove(@, k)])

StorageRemove(st, ck, k) ==
  IF ck \in DOMAIN st.index
  THEN StorageRemoveAt(ChunksIndexMut([st EXCEPT !.dirty = Append(@, st.index[ck])],
                                      st.index[ck]),
                       st.index[ck], k)
  ELSE clean(st)

\* Storage::remove_chunk(chunk_key)
StorageRemoveChunkIn(s0, ck) ==
  IF ck \notin DOMAIN s0.index THEN s0
  ELSE IF s0.index[ck] >= Len(s0.chunks.data)
       THEN [s0 EXCEPT !.index = MapRemove(@, ck), !.panic = TRUE]
       ELSE [s0 EXCEPT !.index = MapRemove(@, ck),
                       !.chunks = swap_remove(@, s0.index[ck])]

StorageRemoveChunk(st, ck) == StorageRemoveChunkIn(clean(st), ck)

\* ChunkStorage::validate(): whether every assertion passes.
ChunkStorageValidate(cs) ==
  /\ \A n \in 1..Len(cs.data.data) :
        /\ chunk_key(cs.data.data[n]) = cs.chunk_key
        /\ item_key(cs.data.data[n]) \in DOMAIN cs.index
        /\ cs.index[item_key(cs.data.data[n])] = n - 1
  /\ \A k \in DOMAIN cs.index :
        /\ cs.index[k] < Len(cs.data.data)
        /\ item_key(cs.data.data[cs.index[k] + 1]) = k

\* The assertions of Storage::validate() on a cleaned storage; an index entry
\* past the end of the chunk list fails the bounds check of self.chunks[idx].
StorageValidateCleaned(s) ==
  /\ ~s.panic
  /\ \A n \in 1..Len(s.chunks.data) :
        /\ s.chunks.data[n].chunk_key \in DOMAIN s.index
        /\ s.index[s.chunks.data[n].chunk_key] = n - 1
  /\ \A ck \in DOMAIN s.index :
        /\ s.index[ck] < Len(s.chunks.data)
        /\ s.chunks.data[s.index[ck] + 1].chunk_key = ck
        /\ Len(s.chunks.data[s.index[ck] + 1].data.data) # 0
  /\ \A n \in 1..Len(s.chunks.data) : ChunkStorageValidate(s.chunks.data[n])

\* Storage::validate(): self.clean(), then the assertions.
StorageValidate(st) == StorageValidateCleaned(clean(st))

\* ChunkStorage::get(unique_id): the assert_eq on the chunk key, then the
\* lookup of the item key.
ChunkStorageGet(cs, ck, k) ==
  IF cs.chunk_key # ck THEN [value |-> None, panic |-> TRUE]
  ELSE IF k \notin DOMAIN cs.index THEN [value |-> None, panic |-> FALSE]
  ELSE IF cs.index[k] >= Len(cs.data.data) THEN [value |-> None, panic |-> TRUE]
  ELSE [value |-> Some(cs.data.data[cs.index[k] + 1]), panic |-> FALSE]

\* Storage::get(&ID.chunk(ck).item(k)): internal_idx_of, then self.chunks[idx].
StorageGet(st, ck, k) ==
  IF ck \notin DOMAIN st.index THEN [value |-> None, panic |-> FALSE]
  ELSE IF st.index[ck] >= Len(st.chunks.data) THEN [value |-> None, panic |-> TRUE]
  ELSE ChunkStorageGet(st.chunks.data[st.index[ck] + 1], ck, k)

\* impl Clone for RVec: RVec::default(), which draws a fresh id, then a push
\* of every element.
RECURSIVE PushAll(_, _)
PushAll(rv, xs) == IF xs = <<>> THEN rv ELSE PushAll(push(rv, xs[1]), Tail(xs))

RVecClone(rv, id) == PushAll(RVecDefault(id), rv.data)

\* #[derive(Clone)] on ChunkStorage
ChunkStorageClone(cs, id) == [cs EXCEPT !.data = RVecClone(@, id)]

\* #[derive(Clone)] on Storage: the id is copied; the chunk list and every
\* chunk's data are RVec clones, with ids of their own.
StorageClone(st, nid) ==
  [st |-> [st EXCEPT !.chunks =
             PushAll(RVecDefault(nid),
                     [c \in 1..Len(st.chunks.data) |->
                        ChunkStorageClone(st.chunks.data[c], nid + c)])],
   nid |-> nid + Len(st.chunks.data) + 1]

\* A second Storage::new(): storage.rs's counter gives it the next id.
StorageNewOther(nid) == [st |-> [StorageNew(nid) EXCEPT !.id = 1], nid |-> nid + 1]

\* Storage::iter(): every element, chunk by chunk.
RECURSIVE FlattenSeq(_)
FlattenSeq(qs) == IF qs = <<>> THEN <<>> ELSE qs[1] \o FlattenSeq(Tail(qs))

StorageIter(st) ==
  FlattenSeq([c \in 1..Len(st.chunks.data) |-> st.chunks.data[c].data.data])

\* A gc closure that reports every chunk it is shown as changed.
GcOp_always(chunk_storages, prev_chunk_key, i, env) ==
  IF chunk_storages = <<>>
  THEN [ret |-> None,
        acc |-> IF IsSome(prev_chunk_key)
                THEN [env EXCEPT !.removed = @ \cup {Unwrap(prev_chunk_key)}]
                ELSE env]
  ELSE [ret |-> Some(Some(chunk_storages[1].chunk_key)),
        acc |-> [env EXCEPT !.added = @ \cup {chunk_storages[1].chunk_key}]]

\* The closure Storage::gc passes to chunk_list.reduce.  env is the pair of
\* HashSets the closure fills.
GcOp(chunk_storages, prev_chunk_key, i, env) ==
  IF chunk_storages = <<>>
  THEN [ret |-> None,
        acc |-> IF IsSome(prev_chunk_key)
                THEN [env EXCEPT !.removed = @ \cup {Unwrap(prev_chunk_key)}]
                ELSE env]
  ELSE IF Some(chunk_storages[1].chunk_key) # prev_chunk_key
       THEN [ret |-> Some(Some(chunk_storages[1].chunk_key)),
             acc |-> [env EXCEPT !.added = @ \cup {chunk_storages[1].chunk_key},
                                 !.removed = IF IsSome(prev_chunk_key)
                                             THEN @ \cup {Unwrap(prev_chunk_key)}
                                             ELSE @]]
       ELSE [ret |-> None, acc |-> env]

\* A tail of Storage::gc that removes nothing from data.
StorageGcDone_keeps_data(r, data) ==
  [chunk_list |-> r.rv, data |-> data, nid |-> r.nid, panic |-> r.panic]

\* The tail of Storage::gc: data.remove for removed.difference(&added).
StorageGcDone(r, data) ==
  [chunk_list |-> r.rv,
   data |-> [ck \in (DOMAIN data) \ (r.acc.removed \ r.acc.added) |-> data[ck]],
   nid |-> r.nid,
   panic |-> r.panic]

\* Storage::gc(chunk_list, data)
StorageGc(st, chunk_list, data, nid) ==
  StorageGcDone(reduce(chunk_list, st.chunks, 1, None, "GcOp",
                       [removed |-> {}, added |-> {}], nid),
                data)

(***************************************************************************)
(* queries/secondary_index.rs, queries/everything.rs, idxsets/, and        *)
(* Storage::query / ChunkStorage::query                                    *)
(***************************************************************************)
\* SecondaryIndex::new(&storage, index_closure)
SecondaryIndexNew(st, id) ==
  [parent_id |-> st.id, gc_chunk_list |-> RVecDefault(id), index |-> EmptyMap,
   rules |-> indexing_rules]

\* The loop of MatchingSecondaryIndex::chunk_idxs over Everything's
\* IdxRange(0..chunks.len()); q carries the index, the id counter and whether
\* a panic was raised.
RECURSIVE UpdateChunks(_, _, _)

\* SecondaryIndexImpl::update_chunk, given the outcome u of Summarize::update.
UpdateChunkDone(q, st, idx, ck, u) ==
  UpdateChunks([q EXCEPT !.si.index = MapInsert(@, ck, u.sm),
                         !.nid = u.nid,
                         !.panic = u.panic],
               st, idx + 1)

UpdateChunkAt(q, st, idx, ck) ==
  IF ck \in DOMAIN q.si.index
  THEN UpdateChunkDone(q, st, idx, ck,
                       SummarizeUpdate(q.si.index[ck], st.chunks.data[idx + 1].data,
                                       q.si.rules, None, q.nid))
  ELSE UpdateChunkDone(q, st, idx, ck,
                       SummarizeUpdate(SummarizeNew(q.nid, EmptyMap),
                                       st.chunks.data[idx + 1].data,
                                       q.si.rules, None, q.nid + 1))

UpdateChunks(q, st, idx) ==
  IF q.panic \/ idx >= Len(st.chunks.data) THEN q
  ELSE IF idx >= Len(q.si.gc_chunk_list.data)
       THEN [q EXCEPT !.panic = TRUE]
       ELSE IF ~IsSome(q.si.gc_chunk_list.data[idx + 1])
            THEN [q EXCEPT !.panic = TRUE]
            ELSE UpdateChunkAt(q, st, idx, Unwrap(q.si.gc_chunk_list.data[idx + 1]))

\* MatchingSecondaryIndex::chunk_idxs after gc; g is the outcome of Storage::gc.
ChunkIdxsAfterGc(si, st, g) ==
  UpdateChunks([si |-> [si EXCEPT !.gc_chunk_list = g.chunk_list, !.index = g.data],
                nid |-> g.nid,
                panic |-> g.panic \/ si.parent_id # st.id],
               st, 0)

\* MatchingSecondaryIndex::chunk_idxs: the assert_eq on the parent id comes
\* first and leaves the index as it was when it fails.
chunk_idxs(si, st, nid) ==
  IF si.parent_id # st.id THEN [si |-> si, nid |-> nid, panic |-> TRUE]
  ELSE ChunkIdxsAfterGc(si, st, StorageGc(st, si.gc_chunk_list, si.index, nid))

\* IdxRange::size for the range 0..len
IdxRangeSize(len) == IF len <= 0 THEN 0 ELSE (len - 1) \div BITS + 1

\* Bitset::intersect_in_slice
\* An intersect_in_slice that anchors its empty answer at block 0.
intersect_in_slice_unanchored(bs, bf) ==
  IF BitsetFind(bs, bf.start) # 0
  THEN BitfieldIntersect(bs[BitsetFind(bs, bf.start)], bf)
  ELSE [start |-> 0, bits |-> {}]

intersect_in_slice(bs, bf) ==
  IF BitsetFind(bs, bf.start) # 0
  THEN BitfieldIntersect(bs[BitsetFind(bs, bf.start)], bf)
  ELSE [start |-> bf.start, bits |-> {}]

\* Intersection<IdxRange, Option<Bitset>>::into_idx_iter, flattened: the
\* smaller side is iterated and intersected with the other.
IntersectionIdxs(len, ours) ==
  IF IdxRangeSize(len) < Len(ours)
  THEN [idxs |-> FlattenSeq([b \in 1..IdxRangeSize(len) |->
                   BitfieldIdxs(intersect_in_slice(ours, BitfieldFromRange(b - 1, len)))]),
        panic |-> FALSE]
  ELSE [idxs |-> FlattenSeq([b \in 1..Len(ours) |->
                   BitfieldIdxs(BitfieldClip(ours[b], 0, len).bf)]),
        panic |-> \E b \in 1..Len(ours) : BitfieldClip(ours[b], 0, len).panic]

(***************************************************************************)
(* traits/idxset.rs and idxsets/: an IdxSet is one of                      *)
(*   [kind |-> "range", lo, hi]         IdxRange(lo..hi)                   *)
(*   [kind |-> "bitfield", bf]          Bitfield                           *)
(*   [kind |-> "bitset", vec]           Bitset (its Vec<Bitfield>)         *)
(*   [kind |-> "option", inner]         Option<T: IdxSet>                  *)
(*   [kind |-> "intersection", a, b]    Intersection<A, B>                 *)
(***************************************************************************)
\* Bitfield::from_range(&mut (lo..hi)) for lo < hi: the Bitfield and the
\* start of the range afterwards.
\* A from_range whose whole-word path leaves the range one past its start.
BitfieldFromRangeAt_keeps_start(lo, hi) ==
  IF lo % BITS = 0 /\ hi - (lo + 1) >= BITS
  THEN [bf |-> [start |-> lo \div BITS, bits |-> 0..(BITS - 1)],
        start |-> lo + 1]
  ELSE [bf |-> [start |-> lo \div BITS,
                bits |-> {p % BITS : p \in lo..(Min(hi, (lo \div BITS) * BITS + BITS) - 1)}],
        start |-> Min(hi, (lo \div BITS) * BITS + BITS)]

\* Bitfield::from_range(&mut (lo..hi)) for lo < hi: the Bitfield and the
\* start of the range afterwards.

BitfieldFromRangeAt(lo, hi) ==
  IF lo % BITS = 0 /\ hi - (lo + 1) >= BITS
  THEN [bf |-> [start |-> lo \div BITS, bits |-> 0..(BITS - 1)],
        start |-> ((lo + 1) \div BITS + 1) * BITS]
  ELSE [bf |-> [start |-> lo \div BITS,
                bits |-> {p % BITS : p \in lo..(Min(hi, (lo \div BITS) * BITS + BITS) - 1)}],
        start |-> Min(hi, (lo \div BITS) * BITS + BITS)]

\* Bitfield::from_range_rev(&mut (lo..hi)) for lo < hi: the Bitfield and the
\* end of the range afterwards.
BitfieldFromRangeRev(lo, hi) ==
  [bf |-> [start |-> (hi - 1) \div BITS,
           bits |-> {p % BITS : p \in Max(lo, ((hi - 1) \div BITS) * BITS)..(hi - 1)}],
   end |-> Max(lo, ((hi - 1) \div BITS) * BITS)]

\* IdxRange as an Iterator: next until None.
RECURSIVE IdxRangeIter(_, _)
IdxRangeIter(lo, hi) ==
  IF lo >= hi THEN <<>>
  ELSE << BitfieldFromRangeAt(lo, hi).bf >>
         \o IdxRangeIter(BitfieldFromRangeAt(lo, hi).start, hi)

\* IdxRange as a DoubleEndedIterator: next_back until None.
RECURSIVE IdxRangeIterRev(_, _)
IdxRangeIterRev(lo, hi) ==
  IF lo >= hi THEN <<>>
  ELSE << BitfieldFromRangeRev(lo, hi).bf >>
         \o IdxRangeIterRev(lo, BitfieldFromRangeRev(lo, hi).end)

\* A Vec from back to front.
Reversed(q) == [n \in 1..Len(q) |-> q[Len(q) + 1 - n]]

\* IdxSet::size
RECURSIVE IdxSetSize(_)
IdxSetSize(s) ==
  CASE s.kind = "range" ->
         IF s.hi <= s.lo THEN 0 ELSE ((s.hi - 1) \div BITS + 1) - s.lo \div BITS
    [] s.kind = "bitfield" -> 1
    [] s.kind = "bitset" -> Len(s.vec)
    [] s.kind = "option" -> IF IsSome(s.inner) THEN IdxSetSize(Unwrap(s.inner)) ELSE 0
    [] s.kind = "intersection" -> Min(IdxSetSize(s.a), IdxSetSize(s.b))

\* IdxSet::intersect(&self, idx): [bf |-> the Bitfield, panic |-> whether an
\* assertion failed].  Intersection::intersect is
\* self.b.intersect(&self.a.intersect(other)), x being the inner outcome.
RECURSIVE IdxSetIntersect(_, _)
IntersectionIntersect(b, x) ==
  IF x.panic THEN x ELSE IdxSetIntersect(b, x.bf)

IdxSetIntersect(s, idx) ==
  CASE s.kind = "range" -> BitfieldClip(idx, s.lo, s.hi)
    [] s.kind = "bitfield" -> [bf |-> BitfieldIntersect(s.bf, idx), panic |-> FALSE]
    [] s.kind = "bitset" -> [bf |-> intersect_in_slice(s.vec, idx), panic |-> FALSE]
    [] s.kind = "option" ->
         IF IsSome(s.inner) THEN IdxSetIntersect(Unwrap(s.inner), idx)
         ELSE [bf |-> [start |-> idx.start, bits |-> {}], panic |-> FALSE]
    [] s.kind = "intersection" -> IntersectionIntersect(s.b, IdxSetIntersect(s.a, idx))

\* IntersectionIter run to its end: every Bitfield the driving side yields,
\* intersected with the other side.
IntersectionIterOver(driven, other) ==
  [seq |-> [n \in 1..Len(driven.seq) |-> IdxSetIntersect(other, driven.seq[n]).bf],
   panic |-> driven.panic
               \/ \E n \in 1..Len(driven.seq) : IdxSetIntersect(other, driven.seq[n]).panic]

\* IdxSet::into_idx_iter run to its end, by next (rev = FALSE) or by
\* next_back (rev = TRUE): [seq |-> the Bitfields, panic].
RECURSIVE IdxSetIter(_, _)
IdxSetIter(s, rev) ==
  CASE s.kind = "range" ->
         [seq |-> IF rev THEN IdxRangeIterRev(s.lo, s.hi) ELSE IdxRangeIter(s.lo, s.hi),
          panic |-> FALSE]
    [] s.kind = "bitfield" -> [seq |-> << s.bf >>, panic |-> FALSE]
    [] s.kind = "bitset" -> [seq |-> IF rev THEN Reversed(s.vec) ELSE s.vec, panic |-> FALSE]
    [] s.kind = "option" ->
         IF IsSome(s.inner) THEN IdxSetIter(Unwrap(s.inner), rev)
         ELSE [seq |-> <<>>, panic |-> FALSE]
    [] s.kind = "intersection" ->
         IF IdxSetSize(s.a) < IdxSetSize(s.b)
         THEN IntersectionIterOver(IdxSetIter(s.a, rev), s.b)
         ELSE IntersectionIterOver(IdxSetIter(s.b, rev), s.a)

\* Iterator::flatten over the Bitfields an IdxIter yields.
RECURSIVE FlattenBitfields(_, _)
FlattenBitfields(seq, rev) ==
  IF seq = <<>> THEN <<>>
  ELSE (IF rev THEN BitfieldIterCollectRev(BitfieldIntoIter(Head(seq)))
        ELSE BitfieldIterCollect(BitfieldIntoIter(Head(seq))))
       \o FlattenBitfields(Tail(seq), rev)

\* MatchingSecondaryIndex::item_idxs: the Option<Bitset> cloned out of the
\* reverse index (None is the empty Vec here: size 0, no Bitfield).
ours_idxs(si, ck, index_key) ==
  IF ck \in DOMAIN si.index
  THEN IF index_key \in DOMAIN si.index[ck].summary
       THEN si.index[ck].summary[index_key]
       ELSE <<>>
  ELSE <<>>

\* ChunkStorage::query: get_idx over the item idxs; Everything's test is true.
ChunkStorageQuery(cs, it) ==
  [elements |-> [n \in 1..Len(SelectSeq(it.idxs, LAMBDA i : i < Len(cs.data.data))) |->
                   cs.data.data[SelectSeq(it.idxs, LAMBDA i : i < Len(cs.data.data))[n] + 1]],
   panic |-> it.panic \/ \E n \in 1..Len(it.idxs) : it.idxs[n] >= Len(cs.data.data)]

\* Storage::query(&Everything.matching(&index, Cow::Owned(index_key))), given
\* the outcome q of chunk_idxs.
StorageQueryChunks(q, st, index_key) ==
  LET per == [c \in 1..Len(st.chunks.data) |->
                ChunkStorageQuery(st.chunks.data[c],
                                  IntersectionIdxs(Len(st.chunks.data[c].data.data),
                                                   ours_idxs(q.si, st.chunks.data[c].chunk_key,
                                                             index_key)))]
  IN [si |-> q.si, nid |-> q.nid,
      result |-> IF q.panic THEN <<>>
                 ELSE FlattenSeq([c \in 1..Len(per) |-> per[c].elements]),
      panic |-> q.panic \/ \E c \in 1..Len(per) : per[c].panic]

StorageQuery(si, st, index_key, nid) ==
  StorageQueryChunks(chunk_idxs(si, st, nid), st, index_key)

\* RwLock::write() on the lock l by a thread that holds the locks in held.
\* std leaves a second acquisition by the holder unspecified: it panics or
\* never returns.
LockWrite(held, l) == IF l \in held THEN {"panic", "deadlock"} ELSE {"acquired"}

\* The locks of MatchingSecondaryIndex::chunk_idxs for
\* Everything.matching(inner, ..).matching(outer, ..): the outer filter takes
\* its index's write lock and holds the guard across self.query.chunk_idxs,
\* in which the inner filter takes the write lock of its own index.
NestedChunkIdxsLocks(inner, outer) ==
  {o \in {"panic", "deadlock", "acquired"} :
     \E first \in LockWrite({}, outer) :
       first = "acquired" /\ o \in LockWrite({outer}, inner)}

\* MatchingSecondaryIndex::item_idxs: ours_idxs as the Option<Bitset> it is.
OursOption(si, ck, index_key) ==
  IF ck \in DOMAIN si.index
  THEN IF index_key \in DOMAIN si.index[ck].summary
       THEN [kind |-> "option",
             inner |-> Some([kind |-> "bitset", vec |-> si.index[ck].summary[index_key]])]
       ELSE [kind |-> "option", inner |-> None]
  ELSE [kind |-> "option", inner |-> None]

\* item_idxs of Everything.matching(&inner, k1).matching(&outer, k2) for the
\* chunk cs: Intersection<Intersection<IdxRange, Option<Bitset>>, Option<Bitset>>.
item_idxs(inner, outer, cs, k1, k2) ==
  [kind |-> "intersection",
   a |-> [kind |-> "intersection",
          a |-> [kind |-> "range", lo |-> 0, hi |-> Len(cs.data.data)],
          b |-> OursOption(inner, cs.chunk_key, k1)],
   b |-> OursOption(outer, cs.chunk_key, k2)]

\* ChunkStorage::query over the item idxs r that into_idx_iter yields.
ChunkStorageQueryOver(cs, r) ==
  ChunkStorageQuery(cs, [idxs |-> FlattenBitfields(r.seq, FALSE), panic |-> r.panic])

\* Storage::query(&Everything.matching(&inner, k1).matching(&outer, k2)):
\* chunk_idxs of the outer query runs chunk_idxs of the inner one, then
\* collects and updates its own index; q1 and q2 are their outcomes.
StorageQuery2Chunks(q1, q2, st, k1, k2) ==
  [inner |-> q1.si, outer |-> q2.si, nid |-> q2.nid,
   result |-> IF q1.panic \/ q2.panic THEN <<>>
              ELSE FlattenSeq([c \in 1..Len(st.chunks.data) |->
                     ChunkStorageQueryOver(st.chunks.data[c],
                       IdxSetIter(item_idxs(q1.si, q2.si, st.chunks.data[c], k1, k2),
                                  FALSE)).elements]),
   panic |-> q1.panic \/ q2.panic
               \/ \E c \in 1..Len(st.chunks.data) :
                    ChunkStorageQueryOver(st.chunks.data[c],
                      IdxSetIter(item_idxs(q1.si, q2.si, st.chunks.data[c], k1, k2),
                                 FALSE)).panic]

StorageQuery2Outer(q1, outer, st, k1, k2) ==
  StorageQuery2Chunks(q1, chunk_idxs(outer, st, q1.nid), st, k1, k2)

StorageQuery2(inner, outer, st, k1, k2, nid) ==
  StorageQuery2Outer(chunk_idxs(inner, st, nid), outer, st, k1, k2)

\* The loop of ChunkStorage::remove over the item idxs still to visit,
\* Everything's test being true: self.data[idx] is bounds-checked, the
\* assertion compares idx with last_removed_idx, remove_idx takes the
\* element out and f receives it.
RECURSIVE ChunkStorageRemoveLoop(_, _, _, _)
ChunkStorageRemoveLoop(cs, idxs, last_removed_idx, passed) ==
  IF idxs = <<>> THEN [cs |-> cs, passed |-> passed, panic |-> FALSE]
  ELSE IF Head(idxs) >= Len(cs.data.data) \/ ~(Head(idxs) < last_removed_idx)
       THEN [cs |-> cs, passed |-> passed, panic |-> TRUE]
       ELSE ChunkStorageRemoveLoop(remove_idx(cs, Head(idxs)), Tail(idxs), Head(idxs),
                                   Append(passed, cs.data.data[Head(idxs) + 1]))

\* ChunkStorage::remove visiting the item idxs front to back, without .rev().
ChunkStorageRemoveOver_forward(cs, r) ==
  IF r.panic THEN [cs |-> cs, passed |-> <<>>, panic |-> TRUE]
  ELSE ChunkStorageRemoveLoop(cs, FlattenBitfields(r.seq, FALSE), Len(cs.data.data), <<>>)

\* ChunkStorage::remove(&query, &f) over the item idxs r that
\* into_idx_iter yields: idxs.into_idx_iter().flatten().rev()
ChunkStorageRemoveOver(cs, r) ==
  IF r.panic THEN [cs |-> cs, passed |-> <<>>, panic |-> TRUE]
  ELSE ChunkStorageRemoveLoop(cs, FlattenBitfields(r.seq, TRUE), Len(cs.data.data), <<>>)

\* item_idxs of Everything.matching(&index, index_key) for the chunk cs:
\* Intersection<IdxRange, Option<Bitset>>.
matching_item_idxs(si, cs, index_key) ==
  [kind |-> "intersection",
   a |-> [kind |-> "range", lo |-> 0, hi |-> Len(cs.data.data)],
   b |-> OursOption(si, cs.chunk_key, index_key)]

\* One turn of the loop of Storage::remove for the chunk index idx: dirty,
\* &mut self.chunks[idx], ChunkStorage::remove.
StorageRemoveInChunk(acc, s1, idx, out) ==
  IF s1.panic THEN [acc EXCEPT !.st = s1, !.panic = TRUE]
  ELSE [acc EXCEPT !.st = [s1 EXCEPT !.chunks.data[idx + 1] = out.cs],
                   !.passed = @ \o out.passed,
                   !.panic = out.panic]

\* The loop of Storage::remove over the chunk idxs idx..(n - 1).
RECURSIVE StorageRemoveLoop(_, _, _, _, _)
StorageRemoveLoop(acc, si, index_key, idx, n) ==
  IF idx >= n \/ acc.panic THEN acc
  ELSE StorageRemoveLoop(
         StorageRemoveInChunk(
           acc,
           ChunksIndexMut([acc.st EXCEPT !.dirty = Append(@, idx)], idx),
           idx,
           ChunkStorageRemoveOver(
             acc.st.chunks.data[idx + 1],
             IdxSetIter(matching_item_idxs(si, acc.st.chunks.data[idx + 1], index_key),
                        TRUE))),
         si, index_key, idx + 1, n)

\* Storage::remove(&Everything.matching(&index, Cow::Owned(index_key)), f),
\* given the outcome q of chunk_idxs; clean() is not reached when the loop
\* panics.
StorageRemoveMatchingChunks(q, r) ==
  [si |-> q.si, nid |-> q.nid,
   st |-> IF r.panic THEN r.st ELSE clean(r.st),
   passed |-> r.passed,
   panic |-> r.panic \/ (~r.panic /\ clean(r.st).panic)]

StorageRemoveMatchingIn(q, st, index_key) ==
  IF q.panic
  THEN [si |-> q.si, nid |-> q.nid, st |-> st, passed |-> <<>>, panic |-> TRUE]
  ELSE StorageRemoveMatchingChunks(
         q, StorageRemoveLoop([st |-> st, passed |-> <<>>, panic |-> FALSE],
                              q.si, index_key, 0, Len(st.chunks.data)))

StorageRemoveMatching(si, st, index_key, nid) ==
  StorageRemoveMatchingIn(chunk_idxs(si, st, nid), st, index_key)

(***************************************************************************)
(* types/reduction.rs                                                      *)
(***************************************************************************)
\* Reduction::new(&storage, group_size, map, fold): three RVec::default().
ReductionNew(st, gs, id) ==
  [parent_id |-> st.id,
   group_size |-> gs,
   gc_chunk_list |-> RVecDefault(id + 2),
   chunkwise_reductions |-> EmptyMap,
   chunkwise_summaries |-> RVecDefault(id),
   reduction |-> ReduceNew(gs, id + 1)]

\* Reduction::reduction_rules: map is the fold closure applied to the slice
\* of one summary.
reduction_rules(rules) ==
  [name |-> "reduction_rules", input |-> "number", map |-> rules.fold,
   fold |-> rules.fold]

\* The body of the closure Reduction::reduce passes to
\* chunkwise_summaries.reduce, for the slice of one chunk key at idx, given
\* the outcome u of the chunk's Reduce::update.  env is what the closure
\* captures: chunkwise_reductions, the storage's chunks, the rules and the
\* group size, with the id counter, the count of rule invocations and
\* whether a panic was raised; env.ret[idx] is what the closure returns.
ReductionChunkUpdated(env, idx, ck, u) ==
  [env EXCEPT !.chunkwise_reductions = MapInsert(@, ck, u.red),
              !.nid = u.nid,
              !.calls = @ + u.calls,
              !.panic = @ \/ u.panic,
              !.ret = MapInsert(@, idx, peek(u.red).value)]

ReductionChunkCall(env, idx) ==
  IF ~IsSome(env.chunk_list[idx + 1]) \/ idx >= Len(env.chunks)
  THEN [env EXCEPT !.panic = TRUE, !.ret = MapInsert(@, idx, None)]
  ELSE IF Unwrap(env.chunk_list[idx + 1]) \in DOMAIN env.chunkwise_reductions
       THEN ReductionChunkUpdated(env, idx, Unwrap(env.chunk_list[idx + 1]),
              ReduceUpdate(env.chunkwise_reductions[Unwrap(env.chunk_list[idx + 1])],
                           env.chunks[idx + 1].data, env.rules, env.nid))
       ELSE ReductionChunkUpdated(env, idx, Unwrap(env.chunk_list[idx + 1]),
              ReduceUpdate(ReduceNew(env.group_size, env.nid),
                           env.chunks[idx + 1].data, env.rules, env.nid + 1))

\* The closure's bodies for the indices RVec::reduce passes it with a
\* non-empty slice, in the order of its update loop.
RECURSIVE ReductionChunkCalls(_, _)
ReductionChunkCalls(env, cand) ==
  IF cand = <<>> THEN env
  ELSE ReductionChunkCalls(ReductionChunkCall(env, cand[1]), Tail(cand))

\* The closure as RVec::reduce calls it: None for an empty slice, and for
\* the slice at idx the value its body yielded.
ReductionChunkOp(chunk_key_slice, old_summary, idx, env) ==
  IF chunk_key_slice = <<>> THEN [ret |-> None, acc |-> env]
  ELSE [ret |-> env.ret[idx], acc |-> env]

\* The tail of Reduction::reduce: self.reduction.update(&chunkwise_summaries).
ReductionReduced(rd, g, r, top) ==
  [rd |-> [rd EXCEPT !.gc_chunk_list = g.chunk_list,
                     !.chunkwise_reductions = r.acc.chunkwise_reductions,
                     !.chunkwise_summaries = r.rv,
                     !.reduction = top.red],
   nid |-> top.nid,
   value |-> peek(top.red).value,
   calls |-> r.acc.calls + top.calls,
   panic |-> g.panic \/ r.panic \/ r.acc.panic \/ top.panic]

ReductionTop(rd, g, r, rules) ==
  ReductionReduced(rd, g, r,
                   ReduceUpdate(rd.reduction, r.rv, reduction_rules(rules), r.acc.nid))

\* chunkwise_summaries.reduce(&self.gc_chunk_list, 1, closure); vp is the
\* outcome of validate_parent_id, after which the closure draws its ids.
\* Reduce::update, which the closure calls, runs RVec::reduce itself, so the
\* closure's bodies are evaluated here, over the indices the update loop of
\* RVec::reduce visits, and RVec::reduce is handed their results.
ReductionChunks(rd, st, g, vp, rules) ==
  ReductionTop(rd, g,
               reduce_validated(vp, Len(g.chunk_list.data), g.chunk_list, 1, 0,
                                "ReductionChunkOp",
                                ReductionChunkCalls(
                                  [chunkwise_reductions |-> g.data,
                                   chunk_list |-> g.chunk_list.data,
                                   chunks |-> st.chunks.data,
                                   rules |-> rules,
                                   group_size |-> rd.group_size,
                                   nid |-> vp.nid,
                                   calls |-> 0,
                                   panic |-> rd.parent_id # st.id,
                                   ret |-> EmptyMap],
                                  SelectSeq(needs_recalc(g.chunk_list, vp.rv.parent_count, 1),
                                            LAMBDA i : i < Len(g.chunk_list.data)))),
               rules)

ReductionAfterGc(rd, st, g, rules) ==
  ReductionChunks(rd, st, g,
                  validate_parent_id(rd.chunkwise_summaries, g.chunk_list, g.nid),
                  rules)

\* Reduction::reduce(&storage): the assert_eq on the parent id comes first and
\* leaves the reduction as it was when it fails.
ReductionReduce(rd, st, rules, nid) ==
  IF rd.parent_id # st.id
  THEN [rd |-> rd, nid |-> nid, value |-> None, calls |-> 0, panic |-> TRUE]
  ELSE ReductionAfterGc(rd, st,
                        StorageGc(st, rd.gc_chunk_list, rd.chunkwise_reductions, nid),
                        rules)

\* The closures rvec.rs's tests pass to RVec::reduce; env.rules names which:
\*   "sum_or_none": |xs, _, _| if xs.is_empty() { None } else { Some(sum) }
\*   "sum":         |xs, _, _| Some(xs.iter().sum())
\* env.log is a history of the invocations: the arguments of each, in order.
OpSum(xs, old, i, env) ==
  [ret |-> IF xs = <<>> /\ env.rules.name = "sum_or_none" THEN None
           ELSE Some(SumSeq(xs)),
   acc |-> [env EXCEPT !.log = Append(@, [xs |-> xs, old |-> old, i |-> i])]]

\* The call op(xs, old, i) of the closure named op.
ApplyOp(op, xs, old, i, env) ==
  CASE op = "OpSum" -> OpSum(xs, old, i, env)
    [] op = "ReduceMapOp" -> ReduceMapOp(xs, old, i, env)
    [] op = "ReduceFoldOp" -> ReduceFoldOp(xs, old, i, env)
    [] op = "SummarizeOp" -> SummarizeOp(xs, old, i, env)
    [] op = "GcOp" -> GcOp(xs, old, i, env)
    [] op = "ReductionChunkOp" -> ReductionChunkOp(xs, old, i, env)

(***************************************************************************)
(* State                                                                   *)
(***************************************************************************)
VARIABLES
  ID_COUNTER,   \* rvec.rs: static ID_COUNTER
  v,            \* a source RVec mutated by its owner
  w,            \* a second source RVec, never mutated
  engine,       \* which consumer the owner built: "rvec", "reduce", "summarize"
  result,       \* engine "rvec": an RVec derived by RVec::reduce
  rsum,         \* engine "reduce": a Reduce with summation_rules
  rall,         \* engine "refine": a Reduce whose rules always yield Some
  ssum,         \* engine "summarize": a Summarize with summation_rules
  group_size,   \* the group size the owner passes
  rules,        \* the closures the owner passes
  call,         \* history: what the most recent reduce/update call did
  steps,        \* history: number of mutations performed so far
  updates,      \* history: number of reduce/update calls performed so far
  reset_seen,   \* history: some call so far found a different parent id
  storage,      \* a Storage<u64, u64, X>
  sindex,       \* engine "index": a SecondaryIndex over storage
  small,        \* engine "indexes": a second SecondaryIndex over storage
  reduction,    \* engine "reduction": a Reduction over storage
  scall,        \* history: what the most recent Storage-level call did
  ghost,        \* history: chunk keys removed by remove_chunk, and the like
  heap,         \* engine "bits": the live Arc<Vec<Bitfield>> allocations
  bitset,       \* engine "bits": a Bitset
  snapshot,     \* engine "bits": Option of a clone of bitset
  biter,        \* engine "bits": a BitfieldIter, with what it yielded so far
  bref,         \* history: the reference sets of bitset and snapshot
  icall,        \* history: what the most recent Intersection iteration did
  bsteps        \* history: number of Bitset-level calls performed so far

vars == << ID_COUNTER, v, w, engine, result, rsum, rall, ssum, group_size, rules, call,
           steps, updates, reset_seen, storage, sindex, small, reduction, scall,
           ghost,
           heap, bitset, snapshot, biter, bref, icall, bsteps >>

\* The state of the objects of bits/ and idxsets/.
bits_vars == << heap, bitset, snapshot, biter, bref, icall, bsteps >>

\* The state of the Storage-level objects.
storage_vars == << storage, sindex, small, reduction, scall, ghost >>

\* The state of the objects of internal/mr.
mr_vars == << v, w, result, rsum, rall, ssum, call, reset_seen >>

\* The value of a variable standing for an object that was not constructed.
Unused == <<>>

\* No object of bits/ or idxsets/ was constructed.
NoBits ==
  /\ heap = Unused /\ bitset = Unused /\ snapshot = Unused /\ biter = Unused
  /\ bref = Unused /\ icall = Unused /\ bsteps = 0

\* Bounds of the model.
MaxSteps == 3
MaxStepsSummarize == 4
MaxUpdates == 3
WLen == 2
MaxValue == 1
PickEdge == 1

Values == 0..MaxValue

\* The indices an owner edits or removes: the first and last PickEdge ones.
Picks(n) == {i \in 0..(n - 1) : i < PickEdge \/ i >= n - PickEdge}

\* An RVec after n pushes of the value x onto RVec::default().
RECURSIVE Pushed(_, _, _)
Pushed(n, x, id) ==
  IF n = 0 THEN RVecDefault(id)
  ELSE LET prev == Pushed(n - 1, x, id)
       IN IF prev.count = n - 1 THEN push(prev, x) ELSE prev

\* The lengths a source vector has when the model starts.
InitLens == {0, 17}

\* History record of a call: none since the last mutation.
NoCall == [kind |-> "none", src |-> "-", ops |-> 0, calls |-> 0, panic |-> FALSE,
           was_reset |-> FALSE, clean |-> FALSE, same |-> FALSE, value |-> None,
           log |-> <<>>, before |-> <<>>]

\* History of the callbacks a Summarize has issued: held[i + 1] is the token
\* contributed at index i and not uncontributed since (None when there is
\* none), strict whether every contribute so far found its index free and
\* every uncontribute found its own token there.
RECURSIVE HeldAfter(_, _)
HeldAfter(h, cb) ==
  IF cb = <<>> THEN h
  ELSE HeldAfter(
         [held |-> [k \in 1..Max(Len(h.held), Head(cb).i + 1) |->
                      IF k = Head(cb).i + 1
                      THEN (IF Head(cb).kind = "contribute"
                            THEN Some(Head(cb).token) ELSE None)
                      ELSE IF k <= Len(h.held) THEN h.held[k] ELSE None],
          strict |-> /\ h.strict
                     /\ (IF Head(cb).i < Len(h.held) THEN h.held[Head(cb).i + 1] ELSE None)
                          = (IF Head(cb).kind = "contribute"
                             THEN None ELSE Some(Head(cb).token))],
         Tail(cb))

\* A Summarize with that history attached.
Tracked(sm, h) ==
  [tokens |-> sm.tokens, summary |-> sm.summary, held |-> h.held, strict |-> h.strict]

Init ==
  /\ \/ /\ engine = "rvec" /\ group_size \in {1, 2, 3}
        /\ rules \in {[name |-> "sum_or_none"], [name |-> "sum"]}
     \/ engine = "reduce" /\ group_size \in {2, 3} /\ rules = summation_rules
     \/ engine = "summarize" /\ group_size = 1 /\ rules = summation_rules
  /\ \E n \in InitLens : v = Pushed(n, 1, 0)
  /\ w = Pushed(WLen, 1, 1)
  /\ result = RVecDefault(2)
  /\ rsum = ReduceNew(group_size, 3)
  /\ rall = Unused
  /\ ssum = Tracked(SummarizeNew(4, 0), [held |-> <<>>, strict |-> TRUE])
  /\ ID_COUNTER = 5
  /\ call = NoCall
  /\ steps = 0
  /\ updates = 0
  /\ reset_seen = FALSE
  /\ storage = Unused /\ sindex = Unused /\ small = Unused /\ reduction = Unused
  /\ scall = Unused /\ ghost = Unused
  /\ NoBits

Mutate ==
  /\ steps < (IF engine = "summarize" THEN MaxStepsSummarize ELSE MaxSteps)
  /\ ~call.panic
  /\ steps' = steps + 1
  /\ call' = NoCall
  /\ UNCHANGED << ID_COUNTER, w, engine, result, rsum, rall, ssum, group_size, rules,
                  updates, reset_seen >>
  /\ UNCHANGED storage_vars
  /\ UNCHANGED bits_vars

VPush == Mutate /\ (\E x \in Values : v' = push(v, x))

VAssign ==
  /\ Mutate
  /\ \E i \in Picks(Len(v.data)), x \in Values : v' = index_mut_assign(v, i, x)

VSwapRemove ==
  /\ Mutate
  /\ \E i \in Picks(Len(v.data)) : v' = swap_remove(v, i)

SourceOf(name) == IF name = "v" THEN v ELSE w

Update ==
  /\ updates < MaxUpdates
  /\ ~call.panic
  /\ updates' = updates + 1
  /\ UNCHANGED << v, w, engine, group_size, rules, steps >>
  /\ UNCHANGED storage_vars
  /\ UNCHANGED bits_vars

Called(kind, name, r, same, value) ==
  [kind |-> kind, src |-> name, ops |-> r.ops, calls |-> r.calls, panic |-> r.panic,
   was_reset |-> r.was_reset,
   clean |-> (call.kind = kind /\ call.src = name),
   same |-> same, value |-> value, log |-> <<>>, before |-> <<>>]

\* result.reduce(&src, group_size, op)
RVecReduced(name, r) ==
  /\ result' = r.rv
  /\ ID_COUNTER' = r.nid
  /\ call' = [Called("reduce", name, [ops |-> r.ops, calls |-> r.ops,
                                      panic |-> r.panic, was_reset |-> r.was_reset],
                     r.rv = result, None)
                EXCEPT !.log = r.acc.log,
                       !.before = IF r.was_reset THEN <<>> ELSE result.data]
  /\ reset_seen' = (reset_seen \/ r.was_reset)
  /\ UNCHANGED << rsum, rall, ssum >>

RVecReduce(name) ==
  RVecReduced(name, reduce(result, SourceOf(name), group_size, 0, "OpSum",
                           [rules |-> rules, log |-> <<>>], ID_COUNTER))

\* The data of every layer of a Reduce.
LayerData(red) == [k \in 1..Len(red.reductions) |-> red.reductions[k].data]

\* sum.update(&src); sum.peek()
RsumUpdated(name, r) ==
  /\ rsum' = r.red
  /\ ID_COUNTER' = r.nid
  /\ call' = Called("update", name, r, LayerData(r.red) = LayerData(rsum),
                    IF r.panic THEN None ELSE peek(r.red).value)
  /\ reset_seen' = (reset_seen \/ r.was_reset)
  /\ UNCHANGED << result, rall, ssum >>

RsumUpdate(name) ==
  RsumUpdated(name, ReduceUpdate(rsum, SourceOf(name), rules, ID_COUNTER))

\* sum.update(&src); sum.peek()
SsumUpdated(name, r) ==
  /\ ssum' = Tracked(r.sm, HeldAfter([held |-> ssum.held, strict |-> ssum.strict], r.cb))
  /\ ID_COUNTER' = r.nid
  /\ call' = [Called("summarize", name, r,
                     r.sm.tokens.data = ssum.tokens.data /\ r.sm.summary = ssum.summary,
                     Some(r.sm.summary))
                EXCEPT !.log = r.cb]
  /\ reset_seen' = (reset_seen \/ r.was_reset)
  /\ UNCHANGED << result, rsum, rall >>

SsumUpdate(name) ==
  SsumUpdated(name, SummarizeUpdate(ssum, SourceOf(name), rules, 0, ID_COUNTER))

ReduceV == engine = "rvec" /\ Update /\ RVecReduce("v")

ReduceW == engine = "rvec" /\ Update /\ RVecReduce("w")

UpdateV == engine = "reduce" /\ Update /\ RsumUpdate("v")

UpdateW == engine = "reduce" /\ Update /\ RsumUpdate("w")

SummarizeV == engine = "summarize" /\ Update /\ SsumUpdate("v")

SummarizeW == engine = "summarize" /\ Update /\ SsumUpdate("w")

Next ==
  \/ VPush \/ VAssign \/ VSwapRemove
  \/ ReduceV \/ ReduceW \/ UpdateV \/ UpdateW \/ SummarizeV \/ SummarizeW

Spec == Init /\ [][Next]_vars

(***************************************************************************)
(* Two Reduces over the same sources: rsum with rules that yield None for  *)
(* an unchanged Summary, rall with rules that always yield Some            *)
(***************************************************************************)
\* types/reduction.rs, Reduction::new: both rules yield None when the Summary
\* is unchanged.
unchanged_none_rules == [name |-> "unchanged_none_rules", input |-> "number",
                         map |-> "changed", fold |-> "changed"]

\* Rules computing the same sums that yield Some unconditionally.
always_some_rules == [name |-> "always_some_rules", input |-> "number",
                      map |-> "always", fold |-> "always"]

InitRefine ==
  /\ engine = "refine"
  /\ group_size \in {2, 3}
  /\ rules \in {summation_rules, unchanged_none_rules}
  /\ \E n \in InitLens : v = Pushed(n, 1, 0)
  /\ w = Pushed(WLen, 1, 1)
  /\ result = Unused /\ ssum = Unused
  /\ rsum = ReduceNew(group_size, 2)
  /\ rall = ReduceNew(group_size, 3)
  /\ ID_COUNTER = 4
  /\ call = NoCall
  /\ steps = 0
  /\ updates = 0
  /\ reset_seen = FALSE
  /\ storage = Unused /\ sindex = Unused /\ small = Unused /\ reduction = Unused
  /\ scall = Unused /\ ghost = Unused
  /\ NoBits

\* sum.update(&src); all.update(&src); then peek() of each.
BothUpdated(name, r, ra) ==
  /\ rsum' = r.red
  /\ rall' = ra.red
  /\ ID_COUNTER' = ra.nid
  /\ call' = Called("update", name, [r EXCEPT !.panic = r.panic \/ ra.panic],
                    LayerData(r.red) = LayerData(rsum),
                    IF r.panic THEN None ELSE peek(r.red).value)
  /\ reset_seen' = (reset_seen \/ r.was_reset)
  /\ UNCHANGED << result, ssum >>

BothUpdateSecond(name, r) ==
  BothUpdated(name, r, ReduceUpdate(rall, SourceOf(name), always_some_rules, r.nid))

BothUpdate(name) ==
  BothUpdateSecond(name, ReduceUpdate(rsum, SourceOf(name), rules, ID_COUNTER))

UpdateBothV == engine = "refine" /\ Update /\ BothUpdate("v")

UpdateBothW == engine = "refine" /\ Update /\ BothUpdate("w")

NextRefine == VPush \/ VAssign \/ VSwapRemove \/ UpdateBothV \/ UpdateBothW

SpecRefine == InitRefine /\ [][NextRefine]_vars

(***************************************************************************)
(* A Storage with a SecondaryIndex or a Reduction over it                  *)
(***************************************************************************)
\* Bounds of the Storage-level model.
MaxStorageSteps == 3
MaxStorageUpdates == 3
Preloaded == 8

\* The item keys the owner adds, edits and removes: 0x101 lies in chunk 0,
\* 0x111 in chunk 1.
ItemKeys == {257, 273}

\* The index keys the owner queries for.
IndexKeys == {0, 1}

\* A Storage after adding X(0x101, 0x101) .. X(0x100 + n, 0x100 + n).
RECURSIVE PreloadedStorage(_, _)
PreloadedStorage(n, id) ==
  IF n = 0 THEN [st |-> StorageNew(id), nid |-> id + 1]
  ELSE StorageAdd(PreloadedStorage(n - 1, id).st, X(256 + n, 256 + n),
                  PreloadedStorage(n - 1, id).nid)

NoStorageCall == [kind |-> "none", key |-> 0, result |-> <<>>, reversed |-> <<>>,
                  value |-> None,
                  calls |-> 0, panic |-> FALSE, other |-> "-", kept |-> TRUE,
                  hung |-> FALSE, passed |-> <<>>, selected |-> {}, stored |-> {}]

InitStorageWith(p) ==
  /\ storage = p.st
  /\ sindex = SecondaryIndexNew(p.st, p.nid)
  /\ reduction = ReductionNew(p.st, group_size, p.nid + 1)
  /\ ID_COUNTER = p.nid + 4
  /\ ghost = [removed |-> {}, readded |-> FALSE, entry |-> FALSE,
              phase |-> IF Len(p.st.chunks.data) > 0 THEN "fresh" ELSE "off"]

InitStorage ==
  /\ \/ engine = "index" /\ group_size = 1 /\ rules = indexing_rules
     \/ engine = "reduction" /\ group_size = 16
          /\ rules \in {docs_rules, random_edits_rules}
  /\ \E n \in {0, Preloaded} : InitStorageWith(PreloadedStorage(n, 0))
  /\ small = Unused
  /\ scall = NoStorageCall
  /\ steps = 0
  /\ updates = 0
  /\ v = Unused /\ w = Unused /\ result = Unused /\ rsum = Unused /\ ssum = Unused
  /\ rall = Unused
  /\ call = Unused /\ reset_seen = FALSE
  /\ NoBits

\* A call that mutates the storage.
StorageMutate ==
  /\ steps < MaxStorageSteps
  /\ ~storage.panic
  /\ ~scall.panic
  /\ ~scall.hung
  /\ steps' = steps + 1
  /\ UNCHANGED << engine, group_size, rules, updates, sindex, small, reduction >>
  /\ UNCHANGED mr_vars
  /\ UNCHANGED bits_vars

\* Its outcome r, with the history it leaves.
Mutated(kind, k, r, phase) ==
  /\ storage' = r.st
  /\ ID_COUNTER' = r.nid
  /\ scall' = [NoStorageCall EXCEPT !.kind = kind, !.key = k, !.panic = r.st.panic]
  /\ ghost' = [removed |-> IF kind = "remove_chunk" /\ k \in DOMAIN storage.index
                           THEN ghost.removed \cup {k} ELSE ghost.removed,
               readded |-> ghost.readded
                             \/ (kind = "add" /\ chunk_key(X(k, 0)) \in ghost.removed),
               entry |-> ghost.entry \/ kind = "entry",
               phase |-> phase]

\* Whether the storage holds an element of item key k.
Holds(st, k) == \E n \in 1..Len(StorageIter(st)) : StorageIter(st)[n].k = k

\* An edit of one stored element, the storage being up to date before it.
EditPhase(k) == IF ghost.phase = "current" /\ Holds(storage, k) THEN "edited" ELSE "off"

\* storage.add(X(k, val))
DoAdd ==
  /\ StorageMutate
  /\ \E k \in ItemKeys, val \in Values :
       Mutated("add", k, StorageAdd(storage, X(k, val), ID_COUNTER), "off")

\* storage.modify(&ID.chunk(ck).item(k), |mut editor| editor.get_mut().1 = val)
DoModify ==
  /\ StorageMutate
  /\ \E k \in ItemKeys, val \in Values :
       Mutated("modify", k,
               [st |-> StorageModify(storage, chunk_key(X(k, 0)), k, val),
                nid |-> ID_COUNTER],
               EditPhase(k))

\* storage.entry(&X(k, 0)).and_modify(|x| x.1 = val)
DoEntryModify ==
  /\ StorageMutate
  /\ \E k \in ItemKeys, val \in Values :
       Mutated("entry", k,
               StorageEntryModify(storage, chunk_key(X(k, 0)), k, val, ID_COUNTER),
               EditPhase(k))

\* storage.remove(&ID.chunk(ck).item(k), drop)
DoRemove ==
  /\ StorageMutate
  /\ \E k \in ItemKeys :
       Mutated("remove", k,
               [st |-> StorageRemove(storage, chunk_key(X(k, 0)), k),
                nid |-> ID_COUNTER],
               "off")

\* storage.remove_chunk(&ck)
DoRemoveChunk ==
  /\ StorageMutate
  /\ \E k \in ItemKeys :
       Mutated("remove_chunk", chunk_key(X(k, 0)),
               [st |-> StorageRemoveChunk(storage, chunk_key(X(k, 0))),
                nid |-> ID_COUNTER],
               "off")

\* A call that reads the storage through the index or the reduction.
StorageUpdate ==
  /\ updates < MaxStorageUpdates
  /\ ~storage.panic
  /\ ~scall.panic
  /\ ~scall.hung
  /\ updates' = updates + 1
  /\ UNCHANGED << engine, group_size, rules, steps, storage >>
  /\ UNCHANGED mr_vars
  /\ UNCHANGED bits_vars

\* storage.query(&Everything.matching(&index, Cow::Owned(index_key))).collect()
Queried(index_key, r) ==
  /\ sindex' = r.si
  /\ ID_COUNTER' = r.nid
  /\ scall' = [NoStorageCall EXCEPT !.kind = "query", !.key = index_key,
                                    !.result = r.result, !.panic = r.panic]
  /\ ghost' = [ghost EXCEPT !.phase = "off"]
  /\ UNCHANGED << small, reduction >>

DoQuery ==
  /\ engine = "index"
  /\ StorageUpdate
  /\ \E index_key \in IndexKeys :
       Queried(index_key, StorageQuery(sindex, storage, index_key, ID_COUNTER))

\* reduction.reduce(&storage).cloned()
Reduced(r) ==
  /\ reduction' = r.rd
  /\ ID_COUNTER' = r.nid
  /\ scall' = [NoStorageCall EXCEPT !.kind = "reduce", !.value = r.value,
                                    !.calls = r.calls, !.panic = r.panic]
  /\ ghost' = [ghost EXCEPT !.phase = CASE @ \in {"fresh", "current"} -> "current"
                                        [] @ = "edited" -> "reduced"
                                        [] OTHER -> "off"]
  /\ UNCHANGED << sindex, small >>

DoReduce ==
  /\ engine = "reduction"
  /\ StorageUpdate
  /\ Reduced(ReductionReduce(reduction, storage, rules, ID_COUNTER))

NextStorage ==
  \/ DoAdd \/ DoModify \/ DoEntryModify \/ DoRemove \/ DoRemoveChunk
  \/ DoQuery \/ DoReduce

SpecStorage == InitStorage /\ [][NextStorage]_vars

(***************************************************************************)
(* The index or the reduction used with a Storage that is not its parent   *)
(***************************************************************************)
\* The other Storage: "new" is a second Storage::new() holding one element,
\* "clone" is storage.clone(), "edited" a clone that then lost an element.
OtherStorage(which, nid) ==
  CASE which = "new" ->
         StorageAdd(StorageNewOther(nid).st, X(257, 1), StorageNewOther(nid).nid)
    [] which = "clone" -> StorageClone(storage, nid)
    [] which = "edited" ->
         [st |-> StorageRemove(StorageClone(storage, nid).st, 0, 257),
          nid |-> StorageClone(storage, nid).nid]

Others == {"new", "clone", "edited"}

\* other.query(&Everything.matching(&index, Cow::Owned(index_key))).collect()
QueriedOther(index_key, which, r) ==
  /\ sindex' = r.si
  /\ ID_COUNTER' = r.nid
  /\ scall' = [NoStorageCall EXCEPT !.kind = "query_other", !.key = index_key,
                                    !.result = r.result, !.panic = r.panic,
                                    !.other = which, !.kept = (r.si = sindex)]
  /\ ghost' = [ghost EXCEPT !.phase = "off"]
  /\ UNCHANGED << small, reduction >>

QueryOther(index_key, which, o) ==
  QueriedOther(index_key, which, StorageQuery(sindex, o.st, index_key, o.nid))

DoQueryOther ==
  /\ engine = "index"
  /\ StorageUpdate
  /\ \E index_key \in IndexKeys, which \in Others :
       QueryOther(index_key, which, OtherStorage(which, ID_COUNTER))

\* reduction.reduce(&other).cloned()
ReducedOther(which, r) ==
  /\ reduction' = r.rd
  /\ ID_COUNTER' = r.nid
  /\ scall' = [NoStorageCall EXCEPT !.kind = "reduce_other", !.value = r.value,
                                    !.calls = r.calls, !.panic = r.panic,
                                    !.other = which, !.kept = (r.rd = reduction)]
  /\ ghost' = [ghost EXCEPT !.phase = "off"]
  /\ UNCHANGED << sindex, small >>

ReduceOther(which, o) ==
  ReducedOther(which, ReductionReduce(reduction, o.st, rules, o.nid))

DoReduceOther ==
  /\ engine = "reduction"
  /\ StorageUpdate
  /\ \E which \in Others : ReduceOther(which, OtherStorage(which, ID_COUNTER))

NextForeign ==
  \/ DoAdd \/ DoRemove \/ DoQuery \/ DoReduce \/ DoQueryOther \/ DoReduceOther

SpecForeign == InitStorage /\ [][NextForeign]_vars

(***************************************************************************)
(* Removal through a query: Storage::remove with Everything.matching       *)
(* (secondary_index.rs, test_kitten_removal).                              *)
(***************************************************************************)

\* The positions the Option<Bitset> of item_idxs holds for the chunk cs.
OursPositions(si, cs, index_key) ==
  UNION {{ours_idxs(si, cs.chunk_key, index_key)[n].start * BITS + p :
            p \in ours_idxs(si, cs.chunk_key, index_key)[n].bits} :
         n \in 1..Len(ours_idxs(si, cs.chunk_key, index_key))}

\* The elements of st at the positions that the query's chunk and item index
\* sets hold: every chunk, the positions of the chunk that are in si's
\* Bitset for index_key.
SelectedBy(si, st, index_key) ==
  UNION {{st.chunks.data[c].data.data[p + 1] :
            p \in OursPositions(si, st.chunks.data[c], index_key)
                    \cap 0..(Len(st.chunks.data[c].data.data) - 1)} :
         c \in 1..Len(st.chunks.data)}

\* storage.remove(&Everything.matching(&index, Cow::Owned(index_key)), f):
\* its outcome r, the elements f received, and what was stored and selected
\* when the removals began.
RemovedMatching(index_key, r) ==
  /\ storage' = r.st
  /\ sindex' = r.si
  /\ ID_COUNTER' = r.nid
  /\ scall' = [NoStorageCall EXCEPT
                 !.kind = "remove_matching", !.key = index_key,
                 !.passed = r.passed, !.panic = r.panic,
                 !.selected = SelectedBy(r.si, storage, index_key),
                 !.stored = {StorageIter(storage)[n] : n \in 1..Len(StorageIter(storage))}]
  /\ ghost' = [ghost EXCEPT !.phase = "off"]

DoRemoveMatching ==
  /\ engine = "index"
  /\ steps < MaxStorageSteps
  /\ ~storage.panic
  /\ ~scall.panic
  /\ ~scall.hung
  /\ steps' = steps + 1
  /\ UNCHANGED << engine, group_size, rules, updates, small, reduction >>
  /\ UNCHANGED mr_vars
  /\ UNCHANGED bits_vars
  /\ \E index_key \in IndexKeys :
       RemovedMatching(index_key,
                       StorageRemoveMatching(sindex, storage, index_key, ID_COUNTER))

NextRemove == DoAdd \/ DoModify \/ DoRemove \/ DoQuery \/ DoRemoveMatching

SpecRemove == InitStorage /\ [][NextRemove]_vars

(***************************************************************************)
(* A Storage with two SecondaryIndexes over it                             *)
(***************************************************************************)
\* lib.rs test_index_intersections: even_odd (sindex) and small.
InitIndexesWith(p) ==
  /\ storage = p.st
  /\ sindex = SecondaryIndexNew(p.st, p.nid)
  /\ small = [SecondaryIndexNew(p.st, p.nid + 1) EXCEPT !.rules = small_rules]
  /\ ID_COUNTER = p.nid + 2
  /\ ghost = [removed |-> {}, readded |-> FALSE, entry |-> FALSE, phase |-> "off"]

InitIndexes ==
  /\ engine = "indexes" /\ group_size = 1 /\ rules = indexing_rules
  /\ \E n \in {0, Preloaded} : InitIndexesWith(PreloadedStorage(n, 0))
  /\ reduction = Unused
  /\ scall = NoStorageCall
  /\ steps = 0
  /\ updates = 0
  /\ v = Unused /\ w = Unused /\ result = Unused /\ rsum = Unused /\ ssum = Unused
  /\ rall = Unused
  /\ call = Unused /\ reset_seen = FALSE
  /\ NoBits

\* The two queries of test_index_intersections, one after the other: r is the
\* outcome of Everything.matching(&even_odd, a).matching(&small, b) and rr of
\* Everything.matching(&small, b).matching(&even_odd, a).
QueriedBoth(a, b, r, rr) ==
  /\ sindex' = rr.outer
  /\ small' = rr.inner
  /\ ID_COUNTER' = rr.nid
  /\ scall' = [NoStorageCall EXCEPT !.kind = "query2", !.key = << a, b >>,
                                    !.result = r.result, !.reversed = rr.result,
                                    !.panic = r.panic \/ rr.panic]
  /\ ghost' = [ghost EXCEPT !.phase = "off"]
  /\ UNCHANGED reduction

QueryReversed(a, b, r) ==
  QueriedBoth(a, b, r, StorageQuery2(r.outer, r.inner, storage, b, a, r.nid))

DoQueryBoth ==
  /\ engine = "indexes"
  /\ StorageUpdate
  /\ NestedChunkIdxsLocks("even_odd", "small") = {"acquired"}
  /\ NestedChunkIdxsLocks("small", "even_odd") = {"acquired"}
  /\ \E a, b \in IndexKeys :
       QueryReversed(a, b, StorageQuery2(sindex, small, storage, a, b, ID_COUNTER))

\* storage.query(&Everything.matching(&even_odd, a).matching(&even_odd, b)):
\* both filters lock the same index.  The inner filter's write() is reached
\* after the outer assertion and before gc, so a call that does not get the
\* lock leaves the index as it was.
QueriedSame(a, b, o) ==
  /\ o # "acquired"
  /\ scall' = [NoStorageCall EXCEPT !.kind = "query_same", !.key = << a, b >>,
                                    !.panic = (o = "panic"),
                                    !.hung = (o = "deadlock")]
  /\ ghost' = [ghost EXCEPT !.phase = "off"]
  /\ UNCHANGED << ID_COUNTER, sindex, small, reduction >>

DoQuerySame ==
  /\ engine = "indexes"
  /\ StorageUpdate
  /\ \E a, b \in IndexKeys, o \in NestedChunkIdxsLocks("even_odd", "even_odd") :
       QueriedSame(a, b, o)

NextIndexes ==
  \/ DoAdd \/ DoModify \/ DoRemove \/ DoRemoveChunk
  \/ DoQueryBoth \/ DoQuerySame

SpecIndexes == InitIndexes /\ [][NextIndexes]_vars

(***************************************************************************)
(* A Bitset, a clone of it, and a BitfieldIter over one of its Bitfields   *)
(***************************************************************************)
\* Bounds of the Bitset-level model.
MaxBitSteps == 3

\* The bit indices an owner sets and unsets: both ends of block 0, the first
\* bit of block 1 and a bit of block 2.
BitIdxs == {0, 1, 63, 64, 130}

\* The indices probed with get.
ProbeIdxs == 0..131

\* The variables of the other engines.
other_vars == << ID_COUNTER, v, w, engine, result, rsum, rall, ssum, group_size, rules,
                 call, steps, updates, reset_seen, storage, sindex, small, reduction,
                 scall, ghost >>

\* No BitfieldIter was constructed.
NoIter ==
  [active |-> FALSE, it |-> BitfieldIntoIter([start |-> 0, bits |-> {}]), of |-> {},
   fore |-> <<>>, aft |-> <<>>, front_done |-> FALSE, back_done |-> FALSE]

\* No Intersection was iterated.
NoICall == [kind |-> "none"]

\* r is Bitset::from_iter over the set S.
InitBitsWith(r, S) ==
  /\ heap = r.heap
  /\ bitset = r.self
  /\ bref = [set |-> S, snap |-> {}]

InitBits ==
  /\ engine = "bits"
  /\ \E S \in SUBSET BitIdxs :
       InitBitsWith(ArcBitsetFromIter(ArcBitsetDefault(EmptyMap), SetToSeq(S)), S)
  /\ snapshot = None
  /\ biter = NoIter
  /\ icall = NoICall
  /\ bsteps = 0
  /\ ID_COUNTER = 0 /\ group_size = 1 /\ rules = Unused
  /\ steps = 0 /\ updates = 0 /\ reset_seen = FALSE
  /\ v = Unused /\ w = Unused /\ result = Unused /\ rsum = Unused /\ ssum = Unused
  /\ rall = Unused
  /\ call = Unused
  /\ storage = Unused /\ sindex = Unused /\ small = Unused /\ reduction = Unused
  /\ scall = Unused /\ ghost = Unused

\* A call on a Bitset.
BitsCall ==
  /\ bsteps < MaxBitSteps
  /\ bsteps' = bsteps + 1
  /\ UNCHANGED other_vars

\* The Vec<Bitfield> of a Bitset.
VecOf(self) == heap[self.bits].vec

\* The outcome r of a call on bitset, with the reference set S after it.
BitsetMutated(r, S) ==
  /\ heap' = r.heap
  /\ bitset' = r.self
  /\ bref' = [bref EXCEPT !.set = S]
  /\ UNCHANGED << snapshot, biter >>
  /\ icall' = NoICall

\* bitset.set(i)
BSet ==
  /\ BitsCall
  /\ \E i \in BitIdxs : BitsetMutated(ArcBitsetSet(heap, bitset, i), bref.set \cup {i})

\* bitset.unset(i)
BUnset ==
  /\ BitsCall
  /\ \E i \in BitIdxs : BitsetMutated(ArcBitsetUnset(heap, bitset, i), bref.set \ {i})

\* snapshot = bitset.clone(), as Bitset::iter() and item_idxs take it; the
\* previous snapshot is dropped.
Cloned(r) ==
  /\ heap' = r.heap
  /\ snapshot' = Some(r.self)
  /\ bref' = [bref EXCEPT !.snap = bref.set]
  /\ UNCHANGED << bitset, biter >>
  /\ icall' = NoICall

BClone ==
  /\ BitsCall
  /\ Cloned(ArcBitsetClone(IF IsSome(snapshot) THEN ArcBitsetDrop(heap, Unwrap(snapshot))
                           ELSE heap,
                           bitset))

\* The outcome r of a call on the snapshot, with the reference set S after it.
SnapMutated(r, S) ==
  /\ heap' = r.heap
  /\ snapshot' = Some(r.self)
  /\ bref' = [bref EXCEPT !.snap = S]
  /\ UNCHANGED << bitset, biter >>
  /\ icall' = NoICall

\* snapshot.set(i)
SnapSet ==
  /\ BitsCall
  /\ IsSome(snapshot)
  /\ \E i \in BitIdxs :
       SnapMutated(ArcBitsetSet(heap, Unwrap(snapshot), i), bref.snap \cup {i})

\* snapshot.unset(i)
SnapUnset ==
  /\ BitsCall
  /\ IsSome(snapshot)
  /\ \E i \in BitIdxs :
       SnapMutated(ArcBitsetUnset(heap, Unwrap(snapshot), i), bref.snap \ {i})

\* bitfield.into_iter(), for a Bitfield bf of bitset.
IterStarted(bf) ==
  /\ biter' = [active |-> TRUE, it |-> BitfieldIntoIter(bf),
               of |-> {bf.start * BITS + p : p \in bf.bits},
               fore |-> <<>>, aft |-> <<>>, front_done |-> FALSE, back_done |-> FALSE]
  /\ UNCHANGED << heap, bitset, snapshot, bref, icall >>

IterStart ==
  /\ BitsCall
  /\ \E k \in 1..Len(VecOf(bitset)) : IterStarted(VecOf(bitset)[k])

\* A call of next or next_back has returned r.
IterStepped(r, front) ==
  /\ biter' = [biter EXCEPT
                 !.it = r.it,
                 !.fore = IF front /\ IsSome(r.ret) THEN Append(@, Unwrap(r.ret)) ELSE @,
                 !.aft = IF ~front /\ IsSome(r.ret) THEN Append(@, Unwrap(r.ret)) ELSE @,
                 !.front_done = @ \/ (front /\ ~IsSome(r.ret)),
                 !.back_done = @ \/ (~front /\ ~IsSome(r.ret))]
  /\ UNCHANGED << heap, bitset, snapshot, bref, icall, bsteps >>
  /\ UNCHANGED other_vars

\* iter.next()
IterNext ==
  /\ biter.active
  /\ ~(biter.front_done /\ biter.back_done)
  /\ IterStepped(BitfieldIterNext(biter.it), TRUE)

\* iter.next_back()
IterNextBack ==
  /\ biter.active
  /\ ~(biter.front_done /\ biter.back_done)
  /\ IterStepped(BitfieldIterNextBack(biter.it), FALSE)

\* The ranges an owner intersects with.
IdxRanges ==
  {[kind |-> "range", lo |-> 0, hi |-> 10], [kind |-> "range", lo |-> 0, hi |-> 70],
   [kind |-> "range", lo |-> 64, hi |-> 131]}

\* The IdxSets an owner builds from the Bitset and its clone.
IdxSets ==
  IdxRanges
    \cup {[kind |-> "bitset", vec |-> VecOf(bitset)]}
    \cup {[kind |-> "bitfield", bf |-> VecOf(bitset)[k]] : k \in 1..Len(VecOf(bitset))}
    \cup {[kind |-> "option", inner |-> None]}
    \cup {[kind |-> "option", inner |-> Some([kind |-> "bitset", vec |-> VecOf(self)])] :
            self \in IF IsSome(snapshot) THEN {Unwrap(snapshot)} ELSE {bitset}}
    \cup {[kind |-> "intersection", a |-> [kind |-> "range", lo |-> 0, hi |-> 70],
           b |-> [kind |-> "bitset", vec |-> VecOf(bitset)]]}

\* Intersection::new(a, b).into_idx_iter() was flattened from the front (r)
\* and, anew, from the back (rr).
Intersected(a, b, r, rr) ==
  /\ icall' = [kind |-> "intersection", a |-> a, b |-> b,
               fore |-> FlattenBitfields(r.seq, FALSE),
               aft |-> FlattenBitfields(rr.seq, TRUE),
               panic |-> r.panic \/ rr.panic]
  /\ UNCHANGED << heap, bitset, snapshot, biter, bref >>

\* Iterating an Intersection changes no Bitset: one iteration is explored
\* between two calls that do.
BIntersect ==
  /\ BitsCall
  /\ icall.kind = "none"
  /\ \E a, b \in IdxSets :
       Intersected(a, b,
                   IdxSetIter([kind |-> "intersection", a |-> a, b |-> b], FALSE),
                   IdxSetIter([kind |-> "intersection", a |-> a, b |-> b], TRUE))

NextBits ==
  \/ BSet \/ BUnset \/ BClone \/ SnapSet \/ SnapUnset
  \/ IterStart \/ IterNext \/ IterNextBack

SpecBits == InitBits /\ [][NextBits]_vars

\* A Bitset and its clone, and the Intersections an owner builds from them.
NextIdxSets == BSet \/ BUnset \/ BClone \/ BIntersect

SpecIdxSets == InitBits /\ [][NextIdxSets]_vars

(***************************************************************************)
(* The functions of bits/ and idxsets/ on their own: the inputs are drawn  *)
(* when the model starts, each action applies one function to them.        *)
(***************************************************************************)
\* The words a Bitfield is given: none, one end, both ends and a middle bit,
\* the other end, all.
WordBits == {{}, {0}, {0, 5, 63}, {63}, 0..(BITS - 1)}

\* The blocks a Bitfield lies in.
Blocks == 0..2

\* The bounds of the ranges: block boundaries and their neighbours.
RangeStarts == {0, 1, 5, 63, 64, 65, 128}
RangeEnds == {0, 1, 6, 63, 64, 65, 70, 128, 129, 131, 200}

\* The arguments of a function, not yet applied.
PureInput(family, args) == [kind |-> "input", family |-> family, args |-> args]

InitPureWith(c) ==
  /\ engine = "pure"
  /\ icall = c
  /\ bsteps = 0
  /\ heap = Unused /\ bitset = Unused /\ snapshot = Unused /\ biter = Unused
  /\ bref = Unused
  /\ ID_COUNTER = 0 /\ group_size = 1 /\ rules = Unused
  /\ steps = 0 /\ updates = 0 /\ reset_seen = FALSE
  /\ v = Unused /\ w = Unused /\ result = Unused /\ rsum = Unused /\ ssum = Unused
  /\ rall = Unused
  /\ call = Unused
  /\ storage = Unused /\ sindex = Unused /\ small = Unused /\ reduction = Unused
  /\ scall = Unused /\ ghost = Unused

\* A function applied to the arguments drawn: its outcome out.
Applied(family, out) ==
  /\ icall.kind = "input"
  /\ icall.family = family
  /\ icall' = [kind |-> family, args |-> icall.args, out |-> out]
  /\ bsteps' = 1
  /\ UNCHANGED << heap, bitset, snapshot, biter, bref >>
  /\ UNCHANGED other_vars

\* IdxRange(lo..hi).intersect(&bf)
ClipInputs ==
  {c \in {PureInput("clip", [bf |-> [start |-> b, bits |-> bits], lo |-> lo, hi |-> hi]) :
            b \in Blocks, bits \in WordBits,
            lo \in RangeStarts, hi \in RangeEnds} :
     c.args.lo <= c.args.hi}

DoClip ==
  /\ icall.kind = "input" /\ icall.family = "clip"
  /\ Applied("clip",
             IdxSetIntersect([kind |-> "range", lo |-> icall.args.lo, hi |-> icall.args.hi],
                             icall.args.bf))

\* Bitfield::from_range called on lo..hi until it returns None, and
\* Bitfield::from_range_rev likewise: the Bitfields and the range left.
RECURSIVE FromRangeUntilNone(_, _)
FromRangeUntilNone(lo, hi) ==
  IF lo >= hi THEN [seq |-> <<>>, start |-> lo, end |-> hi]
  ELSE [seq |-> << BitfieldFromRangeAt(lo, hi).bf >>
                  \o FromRangeUntilNone(BitfieldFromRangeAt(lo, hi).start, hi).seq,
        start |-> FromRangeUntilNone(BitfieldFromRangeAt(lo, hi).start, hi).start,
        end |-> hi]

RECURSIVE FromRangeRevUntilNone(_, _)
FromRangeRevUntilNone(lo, hi) ==
  IF lo >= hi THEN [seq |-> <<>>, start |-> lo, end |-> hi]
  ELSE [seq |-> << BitfieldFromRangeRev(lo, hi).bf >>
                  \o FromRangeRevUntilNone(lo, BitfieldFromRangeRev(lo, hi).end).seq,
        start |-> lo,
        end |-> FromRangeRevUntilNone(lo, BitfieldFromRangeRev(lo, hi).end).end]

FromRangeInputs ==
  {c \in {PureInput("from_range", [lo |-> lo, hi |-> hi]) :
            lo \in RangeStarts, hi \in RangeEnds} :
     c.args.lo <= c.args.hi}

DoFromRange ==
  /\ icall.kind = "input" /\ icall.family = "from_range"
  /\ Applied("from_range",
             [fore |-> FromRangeUntilNone(icall.args.lo, icall.args.hi),
              aft |-> FromRangeRevUntilNone(icall.args.lo, icall.args.hi)])

\* The Vec<Bitfield> of the Bitset that set(i) for each i of is, in turn,
\* makes of bs.
RECURSIVE BitsetSetAll(_, _)
BitsetSetAll(bs, is) ==
  IF is = <<>> THEN bs ELSE BitsetSetAll(BitsetSet(bs, Head(is)), Tail(is))

\* The Bitsets probed: every set of BitIdxs set bit by bit, then one of its
\* bits unset again or none (unset leaves a Bitfield without bits behind).
ProbedBitsets ==
  {BitsetSetAll(<<>>, SetToSeq(S)) : S \in SUBSET BitIdxs}
    \cup {BitsetUnset(BitsetSetAll(<<>>, SetToSeq(S)), 64) : S \in SUBSET BitIdxs}

\* Bitset::intersect(&bf), which is Bitset::intersect_in_slice(&self.bits, &bf)
BitsetIntersectInputs ==
  {PureInput("bitset_intersect", [bs |-> bs, bf |-> [start |-> b, bits |-> bits]]) :
     bs \in ProbedBitsets, b \in 0..3, bits \in WordBits}

DoBitsetIntersect ==
  /\ icall.kind = "input" /\ icall.family = "bitset_intersect"
  /\ Applied("bitset_intersect", intersect_in_slice(icall.args.bs, icall.args.bf))

(***************************************************************************)
(* internal/idxset.rs: the enum-based IdxSet is one of                     *)
(*   [kind |-> "Nothing"]                                                  *)
(*   [kind |-> "ExactValue", x]                                            *)
(*   [kind |-> "ToLength", len]                                            *)
(*   [kind |-> "Bitset", vec]                                              *)
(*   [kind |-> "Intersection", xs]       xs a Vec of IdxSets               *)
(***************************************************************************)
Nothing == [kind |-> "Nothing"]
ExactValue(x) == [kind |-> "ExactValue", x |-> x]
ToLength(len) == [kind |-> "ToLength", len |-> len]
BitsetIdxSet(vec) == [kind |-> "Bitset", vec |-> vec]
IntersectionOf(xs) == [kind |-> "Intersection", xs |-> xs]

\* IdxSet::contains(idx)
RECURSIVE Contains(_, _)
Contains(s, idx) ==
  CASE s.kind = "Nothing" -> FALSE
    [] s.kind = "ExactValue" -> idx = s.x
    [] s.kind = "ToLength" -> 0 <= idx /\ idx < s.len
    [] s.kind = "Bitset" -> BitsetGet(s.vec, idx)
    [] s.kind = "Intersection" -> \A k \in 1..Len(s.xs) : Contains(s.xs[k], idx)

\* The least of a Vec of lengths: Iterator::min().unwrap_or(0)
MinOrZero(ns) ==
  IF ns = <<>> THEN 0
  ELSE CHOOSE m \in {ns[k] : k \in 1..Len(ns)} : \A k \in 1..Len(ns) : m <= ns[k]

\* IdxSet::len()
RECURSIVE IdxSetLen(_)
IdxSetLen(s) ==
  CASE s.kind = "Nothing" -> 0
    [] s.kind = "ExactValue" -> 1
    [] s.kind = "ToLength" -> s.len
    [] s.kind = "Bitset" -> BitsetLen(s.vec)
    [] s.kind = "Intersection" -> MinOrZero([k \in 1..Len(s.xs) |-> IdxSetLen(s.xs[k])])

\* xs.sort_by_key(|x| x.len()): a stable sort, here by insertion.
RECURSIVE SortedInsert(_, _)
SortedInsert(sorted, x) ==
  IF sorted = <<>> THEN << x >>
  ELSE IF IdxSetLen(sorted[Len(sorted)]) <= IdxSetLen(x) THEN Append(sorted, x)
       ELSE Append(SortedInsert(SubSeq(sorted, 1, Len(sorted) - 1), x), sorted[Len(sorted)])

RECURSIVE SortByLen(_)
SortByLen(xs) ==
  IF xs = <<>> THEN <<>>
  ELSE SortedInsert(SortByLen(SubSeq(xs, 1, Len(xs) - 1)), xs[Len(xs)])

\* IdxSet::intersection(a, b): the arms of the match in their order.
IdxSetIntersection(a, b) ==
  IF a.kind = "Intersection" /\ b.kind = "Intersection"
  THEN IntersectionOf(SortByLen(a.xs \o b.xs))
  ELSE IF a.kind = "Intersection" THEN IntersectionOf(SortByLen(Append(a.xs, b)))
  ELSE IF b.kind = "Intersection" THEN IntersectionOf(SortByLen(Append(b.xs, a)))
  ELSE IF a.kind = "Nothing" \/ b.kind = "Nothing" THEN Nothing
  ELSE IF a.kind = "ExactValue"
  THEN (IF Contains(b, a.x) THEN ExactValue(a.x) ELSE Nothing)
  ELSE IF b.kind = "ExactValue"
  THEN (IF Contains(a, b.x) THEN ExactValue(b.x) ELSE Nothing)
  ELSE IF a.kind = "ToLength" /\ b.kind = "ToLength" THEN ToLength(Min(a.len, b.len))
  ELSE IntersectionOf(SortByLen(<< a, b >>))

\* The IdxSets an owner makes without intersecting: nothing(), From<usize>,
\* from_length, From<Bitset>.
PlainIdxSets ==
  {Nothing}
    \cup {ExactValue(x) : x \in {0, 3, 70}}
    \cup {ToLength(len) : len \in {0, 4, 100}}
    \cup {BitsetIdxSet(BitsetSetAll(<<>>, SetToSeq(S))) : S \in {{}, {3}, {0, 70}}}

\* Those and the Intersections that intersecting two of them makes.
EnumIdxSets ==
  PlainIdxSets
    \cup {s \in {IdxSetIntersection(a, b) : a, b \in PlainIdxSets} : s.kind = "Intersection"}

IdxSetIntersectionInputs ==
  {PureInput("intersection", [a |-> a, b |-> b]) : a, b \in EnumIdxSets}

DoIdxSetIntersection ==
  /\ icall.kind = "input" /\ icall.family = "intersection"
  /\ Applied("intersection", IdxSetIntersection(icall.args.a, icall.args.b))

InitPure ==
  \E c \in ClipInputs \cup FromRangeInputs \cup BitsetIntersectInputs
             \cup IdxSetIntersectionInputs :
     InitPureWith(c)

NextPure == DoClip \/ DoFromRange \/ DoBitsetIntersect \/ DoIdxSetIntersection

SpecPure == InitPure /\ [][NextPure]_vars

(***************************************************************************)
(* The while loops of RVec::reduce and Reduce::update, one iteration per   *)
(* step.  v is the source, group_size the group size, icall the locals of  *)
(* the running call.                                                       *)
(***************************************************************************)
\* The sources: n pushes, and for the longer ones a later touch of an index
\* in the first or in the second stride-16 bucket.
LoopLens == {0, 1, 16, 17, 33}

LoopSources ==
  {Pushed(n, 1, 0) : n \in LoopLens}
    \cup {touch(Pushed(n, 1, 0), i) : n \in {17, 33}, i \in {0, 16}}

\* The group sizes a caller passes to RVec::reduce, and to Reduce::new.
WalkGroupSizes == {1, 2, 3, 17}
NewGroupSizes == {0, 1, 2, 3}

InitLoopsWith(source, gs, c) ==
  /\ engine = "loops"
  /\ v = source
  /\ group_size = gs
  /\ icall = c
  /\ bsteps = 0
  /\ heap = Unused /\ bitset = Unused /\ snapshot = Unused /\ biter = Unused
  /\ bref = Unused
  /\ ID_COUNTER = 1 /\ rules = summation_rules
  /\ steps = 0 /\ updates = 0 /\ reset_seen = FALSE
  /\ w = Unused /\ result = Unused /\ rsum = Unused /\ ssum = Unused
  /\ rall = Unused
  /\ call = Unused
  /\ storage = Unused /\ sindex = Unused /\ small = Unused /\ reduction = Unused
  /\ scall = Unused /\ ghost = Unused

\* The locals of RVec::reduce when its walk begins: expected_count is the
\* parent_count the vector last saw, i the cursor.
WalkBegins(expected_count) ==
  [kind |-> "walk", phase |-> "while", expected_count |-> expected_count,
   i |-> 0, stop |-> 0, needs_recalc |-> <<>>]

\* A Reduce about to be constructed and updated.
UpdateBegins == [kind |-> "update", phase |-> "new", st |-> <<>>]

InitLoops ==
  \E source \in LoopSources :
     \/ \E gs \in WalkGroupSizes,
           expected_count \in {0, Len(source.data), source.count} :
          InitLoopsWith(source, gs, WalkBegins(expected_count))
     \/ \E gs \in NewGroupSizes : InitLoopsWith(source, gs, UpdateBegins)

\* A step of a running call changes its locals only.
LoopStep(kind, phase) ==
  /\ engine = "loops"
  /\ icall.kind = kind
  /\ icall.phase = phase
  /\ UNCHANGED << heap, bitset, snapshot, biter, bref, bsteps >>
  /\ UNCHANGED other_vars

\* The checkpoint of the level-L bucket of index i, and where that bucket ends.
Checkpoint(source, L, i) == source.counts[L][(i \div STRIDE[L]) + 1]
BucketEnd(L, i) == ((i \div STRIDE[L]) + 1) * STRIDE[L]

\* One turn of `while i < source.data.len()`: a bucket is skipped, or one of
\* the two inner loops is entered with its stop.
WalkWhile ==
  /\ LoopStep("walk", "while")
  /\ icall' =
       IF ~(icall.i < Len(v.data)) THEN [icall EXCEPT !.phase = "done"]
       ELSE IF Checkpoint(v, 5, icall.i) <= icall.expected_count
       THEN [icall EXCEPT !.i = BucketEnd(5, icall.i)]
       ELSE IF Checkpoint(v, 4, icall.i) <= icall.expected_count
       THEN [icall EXCEPT !.i = BucketEnd(4, icall.i)]
       ELSE IF Checkpoint(v, 3, icall.i) <= icall.expected_count
       THEN [icall EXCEPT !.i = BucketEnd(3, icall.i)]
       ELSE IF Checkpoint(v, 2, icall.i) <= icall.expected_count
       THEN [icall EXCEPT !.i = BucketEnd(2, icall.i)]
       ELSE IF Checkpoint(v, 1, icall.i) > icall.expected_count
       THEN [icall EXCEPT !.phase = "push", !.stop = BucketEnd(1, icall.i)]
       ELSE [icall EXCEPT !.phase = "skip", !.stop = BucketEnd(1, icall.i)]

\* A cursor that stays in its group.
NextGroup_same_group(i, gs) == (i \div gs) * gs

\* i = ((i / group_size) + 1) * group_size
NextGroup(i, gs) == ((i \div gs) + 1) * gs

\* One turn of `while i < stop` in the branch that pushes i / group_size.
WalkPush ==
  /\ LoopStep("walk", "push")
  /\ icall' =
       IF icall.i < icall.stop
       THEN [icall EXCEPT !.needs_recalc = Append(@, icall.i \div group_size),
                          !.i = NextGroup(icall.i, group_size)]
       ELSE [icall EXCEPT !.phase = "while"]

\* One turn of `while i < stop` in the branch that passes over the bucket.
WalkSkip ==
  /\ LoopStep("walk", "skip")
  /\ icall' =
       IF icall.i < icall.stop
       THEN [icall EXCEPT !.i = @ + 1]
       ELSE [icall EXCEPT !.phase = "while"]

\* Reduce::new(&parent, group_size, rules): assert!(group_size > 1)
ReduceConstruct ==
  /\ LoopStep("update", "new")
  /\ icall' =
       IF group_size > 1
       THEN [icall EXCEPT !.phase = "constructed", !.st = ReduceNew(group_size, ID_COUNTER)]
       ELSE [icall EXCEPT !.phase = "panicked"]

\* The locals of Reduce::update before its while loop, r0 being the outcome
\* for layer 0.
UpdateLocals(red, r0) ==
  [reductions |-> [red.reductions EXCEPT ![1] = r0.rv],
   layer |-> 0, nid |-> r0.nid, env |-> r0.acc, ops |-> r0.ops, panic |-> r0.panic]

\* Reduce::update up to its while loop.
UpdateLayer0 ==
  /\ LoopStep("update", "constructed")
  /\ icall' =
       [icall EXCEPT
          !.phase = "while",
          !.st = IF Len(v.data) = 0
                 THEN UpdateLocals(icall.st,
                                   [rv |-> RVecDefault(ID_COUNTER + 1),
                                    acc |-> [rules |-> rules, calls |-> 0],
                                    nid |-> ID_COUNTER + 2, panic |-> FALSE, ops |-> 0])
                 ELSE UpdateLocals(icall.st,
                                   reduce(icall.st.reductions[1], v, 1, 0, "ReduceMapOp",
                                          [rules |-> rules, calls |-> 0], ID_COUNTER + 1))]

\* The body of the while loop, given the stack rs after the push of a missing
\* layer and the outcome r of reducing layer + 1 from layer.
LayerReduced(st, rs, r) ==
  [reductions |-> [rs EXCEPT ![st.layer + 2] = r.rv],
   layer |-> st.layer + 1, nid |-> r.nid, env |-> r.acc,
   ops |-> st.ops + r.ops, panic |-> r.panic]

LayerTurn(st, rs, nid, gs) ==
  LayerReduced(st, rs,
               reduce(rs[st.layer + 2], rs[st.layer + 1], gs, 0, "ReduceFoldOp",
                      st.env, nid))

\* One turn of `while self.reductions[layer].len() > 1`.
UpdateWhile ==
  /\ LoopStep("update", "while")
  /\ icall' =
       IF icall.st.panic \/ ~(Len(icall.st.reductions[icall.st.layer + 1].data) > 1)
       THEN [icall EXCEPT !.phase = "done"]
       ELSE IF Len(icall.st.reductions) = icall.st.layer + 1
       THEN [icall EXCEPT !.st = LayerTurn(icall.st,
                                           Append(icall.st.reductions,
                                                  RVecDefault(icall.st.nid)),
                                           icall.st.nid + 1, group_size)]
       ELSE [icall EXCEPT !.st = LayerTurn(icall.st, icall.st.reductions,
                                           icall.st.nid, group_size)]

NextLoops ==
  \/ WalkWhile \/ WalkPush \/ WalkSkip
  \/ ReduceConstruct \/ UpdateLayer0 \/ UpdateWhile

\* Whether Reduce::update is between two of its steps.
UpdateRunning ==
  engine = "loops" /\ icall.kind = "update" /\ icall.phase \in {"constructed", "while"}

\* Weak fairness of the steps of Reduce::update, WF_vars(UpdateLayer0 \/
\* UpdateWhile), written out: ENABLED <<UpdateLayer0 \/ UpdateWhile>>_vars is
\* UpdateRunning, since either step changes icall whenever its guard holds.
UpdateKeepsRunning ==
  []<>(~UpdateRunning) \/ []<><<UpdateLayer0 \/ UpdateWhile>>_vars

\* A call that has begun keeps running on its thread: every loop turn that
\* can be taken is taken.
SpecLoops ==
  /\ InitLoops
  /\ [][NextLoops]_vars
  /\ WF_vars(WalkWhile \/ WalkPush \/ WalkSkip \/ ReduceConstruct)
  /\ UpdateKeepsRunning




\* The source group j of a vector's data, and a from-scratch reduction.
Group(data, gs, j) == SubSeq(data, j * gs + 1, Min((j + 1) * gs, Len(data)))

NaiveSums(data, gs) ==
  [j1 \in 1..((Len(data) + gs - 1) \div gs) |-> SumSeq(Group(data, gs, j1 - 1))]

\* The direct sum of a vector's data, as Reduce is to report it.
DirectSum(data) == IF Len(data) = 0 THEN None ELSE Some(SumSeq(data))

\* C1: after any sequence of push / assign / swap_remove on the parent, the
\* value Reduce::update then Reduce::peek reports is the direct sum of the
\* parent's current elements, and None exactly when the parent is empty.
C1_UpdateEqualsDirectSum ==
  (call.kind = "update" /\ call.src = "v" /\ ~reset_seen)
    => (~call.panic /\ call.value = DirectSum(v.data))

\* Every RVec the program holds.
AllRVecs ==
  {v, w, result, ssum.tokens} \cup {rsum.reductions[k] : k \in 1..Len(rsum.reductions)}

\* The counter value of the most recent touch of index i of rv.
LastTouch(rv, i) == IF i + 1 <= Len(rv.touched) THEN rv.touched[i + 1] ELSE 0

\* C5: in every RVec, source or derived, the checkpoint of every level that
\* covers an index is at least the counter value of the most recent touch of
\* that index.
C5_CheckpointsCoverTouches ==
  \A rv \in AllRVecs : \A i \in 0..(Len(rv.data) - 1) : \A L \in Levels :
    /\ (i \div STRIDE[L]) + 1 <= Len(rv.counts[L])
    /\ rv.counts[L][(i \div STRIDE[L]) + 1] >= LastTouch(rv, i)

\* C6: after reduce returns with an op that yields Some(f(group)) for every
\* group, every self[j] equals f applied to the current source group j.
C6_NoUnderApproximation ==
  (call.kind = "reduce" /\ ~call.panic)
    => result.data = NaiveSums(SourceOf(call.src).data, group_size)

\* C7: a reduce / update call that directly follows a call of the same kind
\* from the same parent, with no mutation in between, leaves every layer as
\* it was and invokes no closure.
C7_SecondCallIsNoOp ==
  call.clean => (call.same /\ call.ops = 0 /\ call.calls = 0 /\ ~call.panic)

C7_Witness ==
  /\ call.clean /\ call.src = "v" /\ Len(v.data) > SCALE /\ steps > 0
  /\ engine = "reduce" /\ Len(rsum.reductions) > 2

\* C9: after every Summarize::update against the same parent, the summary is
\* the contribution of every current non-default token: the sum of the
\* parent's elements.
C9_SummaryIsSumOfTokens ==
  (call.kind = "summarize" /\ call.src = "v" /\ ~reset_seen)
    => (ssum.summary = SumSeq(v.data) /\ ssum.tokens.data = v.data)

C9_Witness ==
  /\ call.kind = "summarize" /\ call.src = "v" /\ ~reset_seen
  /\ updates > 1 /\ steps > 1 /\ Len(v.data) < 17 /\ Len(v.data) > 0
  /\ \E i \in 1..Len(v.data) : v.data[i] = 0

\* C10: reducing an RVec from a source whose id differs from the stored
\* parent id does not panic, and leaves the RVec as a reduction of the new
\* source into a fresh vector would: prior contents and parent_count are gone.
C10_ParentChangeResets ==
  (call.kind = "reduce" /\ call.was_reset)
    => /\ ~call.panic
       /\ result.data = NaiveSums(SourceOf(call.src).data, group_size)
       /\ result.parent_id = Some(SourceOf(call.src).id)
       /\ result.parent_count = SourceOf(call.src).count
       /\ result = reduce(RVecDefault(result.id), SourceOf(call.src), group_size, 0,
                          "OpSum", [rules |-> rules], 0).rv

C10_Witness ==
  /\ call.kind = "reduce" /\ call.was_reset /\ rules.name = "sum"
  /\ call.src = "w" /\ Len(w.data) > 0 /\ Len(v.data) > SCALE

\* The total a fresh fold over every stored element yields.
FreshTotal(st) ==
  IF Len(StorageIter(st)) = 0 THEN None
  ELSE Some(SumSeq([n \in 1..Len(StorageIter(st)) |-> StorageIter(st)[n].val]))

\* C2: after any sequence of add / modify / remove on the Storage,
\* Reduction::reduce returns the fold over all elements currently stored,
\* and None only when the Storage holds no elements.
C2_ReduceEqualsFreshTotal ==
  (scall.kind = "reduce" /\ ghost.removed = {} /\ ~ghost.entry)
    => (~scall.panic /\ scall.value = FreshTotal(storage))

\* The stored elements whose index-key set contains index_key.
Matching(st, index_key) ==
  {x \in {StorageIter(st)[n] : n \in 1..Len(StorageIter(st))} :
     index_closure(x) = Some(index_key)}

\* The query yielded exactly the matching elements, each once.
QueryIsExact ==
  /\ ~scall.panic
  /\ {scall.result[n] : n \in 1..Len(scall.result)} = Matching(storage, scall.key)
  /\ \A m, n \in 1..Len(scall.result) : scall.result[m] = scall.result[n] => m = n

\* C3: after any sequence of add, modify and remove interleaved with
\* queries, a query matching the index yields exactly the stored elements
\* whose index keys contain the key: none missing, none wrong, none twice.
C3_QueryYieldsExactlyMatching ==
  (scall.kind = "query" /\ ghost.removed = {} /\ ~ghost.entry) => QueryIsExact

\* C4: once a chunk was removed with remove_chunk and elements were added
\* again under its chunk key, a query matching the index reports exactly the
\* matching elements among those stored: nothing of the removed chunk
\* survives in the index.
C4_NoIndexStateSurvivesRemoveChunk ==
  (scall.kind = "query" /\ ghost.readded) => QueryIsExact

C11_ResetValueIsFresh ==
  (call.kind \in {"update", "summarize"} /\ call.was_reset)
    => /\ ~call.panic
       /\ call.kind = "update" => call.value = DirectSum(SourceOf(call.src).data)
       /\ call.kind = "summarize" => call.value = Some(SumSeq(SourceOf(call.src).data))

\* C12: get(i) of a Bitset is true exactly when i is in the reference set
\* subjected to the same set / unset calls, for every probed index, and
\* iter().flatten() enumerates the members of that set in ascending order.
C12_BitsetEqualsReferenceSet ==
  engine = "bits"
    => /\ \A i \in ProbeIdxs : BitsetGet(VecOf(bitset), i) = (i \in bref.set)
       /\ BitsetIterFlatten(VecOf(bitset)) = SetToSeq(bref.set)

C12_Witness ==
  /\ engine = "bits" /\ bsteps = MaxBitSteps
  /\ bref.set = {1, 130} /\ Len(VecOf(bitset)) = 3

\* C13: the block vector of a Bitset is sorted ascending by block start, no
\* two of its Bitfields have the same start, and none has zero bits set.
C13_BlocksSortedUniqueNonEmpty ==
  engine = "bits"
    => /\ \A j, k \in 1..Len(VecOf(bitset)) :
            j < k => VecOf(bitset)[j].start < VecOf(bitset)[k].start
       /\ \A k \in 1..Len(VecOf(bitset)) : VecOf(bitset)[k].bits # {}

\* C14: Bitset::is_empty() is true if and only if len() is 0.
C14_IsEmptyIffNoBitSet ==
  engine = "bits" => (BitsetIsEmpty(VecOf(bitset)) <=> BitsetLen(VecOf(bitset)) = 0)

\* C15: a clone of a Bitset observes, for get and for iteration, the bits it
\* had when it was cloned as changed by the calls on the clone alone, and the
\* original observes its own bits as changed by the calls on it alone.
C15_CloneIsStableSnapshot ==
  (engine = "bits" /\ IsSome(snapshot))
    => /\ \A i \in ProbeIdxs :
            /\ BitsetGet(VecOf(Unwrap(snapshot)), i) = (i \in bref.snap)
            /\ BitsetGet(VecOf(bitset), i) = (i \in bref.set)
       /\ BitsetIterFlatten(VecOf(Unwrap(snapshot))) = SetToSeq(bref.snap)

C15_Witness ==
  /\ engine = "bits" /\ IsSome(snapshot)
  /\ bref.set \ bref.snap # {} /\ bref.snap \ bref.set # {}
  /\ Cardinality(bref.snap) > 1

\* The elements of a sequence.
Range(q) == {q[n] : n \in 1..Len(q)}

\* C16: a BitfieldIter yields set indices only, in ascending order from the
\* front and in descending order from the back, no index from both ends, and
\* once either end has returned None every set index has been yielded; run
\* from one end alone it yields exactly the set indices, in that end's order.
C16_IterEndsMeetInTheMiddle ==
  engine = "bits"
    => /\ \A m, n \in 1..Len(biter.fore) : m < n => biter.fore[m] < biter.fore[n]
       /\ \A m, n \in 1..Len(biter.aft) : m < n => biter.aft[m] > biter.aft[n]
       /\ \A x \in Range(biter.fore), y \in Range(biter.aft) : x < y
       /\ Range(biter.fore) \cup Range(biter.aft) \subseteq biter.of
       /\ (biter.front_done \/ biter.back_done)
            => Range(biter.fore) \cup Range(biter.aft) = biter.of
       /\ \A k \in 1..Len(VecOf(bitset)) :
            /\ BitfieldIterCollect(BitfieldIntoIter(VecOf(bitset)[k]))
                 = BitfieldIdxs(VecOf(bitset)[k])
            /\ BitfieldIterCollectRev(BitfieldIntoIter(VecOf(bitset)[k]))
                 = [n \in 1..Cardinality(VecOf(bitset)[k].bits) |->
                      BitfieldIdxs(VecOf(bitset)[k])[Cardinality(VecOf(bitset)[k].bits) + 1 - n]]

C16_Witness ==
  /\ engine = "bits" /\ biter.front_done /\ biter.back_done
  /\ biter.of = {0, 1, 63} /\ Len(biter.fore) = 2 /\ Len(biter.aft) = 1
  /\ bref.set = {1, 63}

\* The indices an IdxSet contains.
RECURSIVE Members(_)
Members(s) ==
  CASE s.kind = "range" -> s.lo..(s.hi - 1)
    [] s.kind = "bitfield" -> {s.bf.start * BITS + p : p \in s.bf.bits}
    [] s.kind = "bitset" ->
         UNION {{s.vec[k].start * BITS + p : p \in s.vec[k].bits} : k \in 1..Len(s.vec)}
    [] s.kind = "option" -> IF IsSome(s.inner) THEN Members(Unwrap(s.inner)) ELSE {}
    [] s.kind = "intersection" -> Members(s.a) \cap Members(s.b)

\* C17: flattening Intersection(a, b).into_idx_iter() does not panic and
\* yields exactly the indices contained in both a and b, each once, in
\* ascending order, and in descending order when reversed.
C17_IntersectionYieldsCommonIdxs ==
  (engine = "bits" /\ icall.kind = "intersection")
    => /\ ~icall.panic
       /\ icall.fore = SetToSeq(Members(icall.a) \cap Members(icall.b))
       /\ icall.aft = Reversed(SetToSeq(Members(icall.a) \cap Members(icall.b)))

\* The stored elements indexed under a by even_odd and under b by small.
MatchingBoth(st, a, b) ==
  {x \in {StorageIter(st)[n] : n \in 1..Len(StorageIter(st))} :
     index_closure(x) = Some(a) /\ small_closure(x) = Some(b)}

\* C18: Everything.matching(idxA, a).matching(idxB, b) and
\* Everything.matching(idxB, b).matching(idxA, a) yield, on the same Storage,
\* the same set of elements: the stored elements indexed under a in idxA and
\* under b in idxB.
C18_MatchingCommutes ==
  scall.kind = "query2"
    => /\ ~scall.panic
       /\ Range(scall.result) = Range(scall.reversed)
       /\ Range(scall.result) = MatchingBoth(storage, scall.key[1], scall.key[2])

\* The lengths of the layers of a Reduce, bottom first.
LayerLens(red) == [k \in 1..Len(red.reductions) |-> Len(red.reductions[k].data)]

\* The stack ends at its first layer of length <= 1.
StackIsTrimmed(lens) ==
  /\ Len(lens) >= 1
  /\ \A k \in 1..(Len(lens) - 1) : lens[k] > 1
  /\ lens[Len(lens)] <= 1

\* C19: before the first update and after every Reduce::update(parent) every
\* layer but the last is longer than 1 and the last holds at most one value,
\* so that update and peek do not panic.
C19_StackEndsAtTerminalLayer ==
  engine = "reduce"
    => /\ ~call.panic
       /\ StackIsTrimmed(LayerLens(rsum))
       /\ ~peek(rsum).panic

\* An update of a parent of 17 elements left a stack of several layers.
C19_Witness ==
  /\ engine = "reduce" /\ call.kind = "update" /\ call.src = "v"
  /\ Len(v.data) >= 17
  /\ Len(rsum.reductions) >= 3
  /\ IsSome(call.value)

\* ceil(n / g)
CeilDiv(n, g) == (n + g - 1) \div g

\* Each layer above layer 0 has one value per group of the layer below.
LayersShrinkByGroupSize(lens, gs) ==
  \A k \in 1..(Len(lens) - 1) : lens[k + 1] = CeilDiv(lens[k], gs)

\* C20 as stated: after Reduce::update(parent) layer 0 has length
\* ceil(len(parent) / group_size) and each layer k+1 has length
\* ceil(len(layer k) / group_size), down to a layer of length <= 1.
C20_Layer0IsGrouped ==
  (engine = "reduce" /\ call.kind = "update" /\ ~call.panic)
    => /\ LayerLens(rsum)[1] = CeilDiv(Len(SourceOf(call.src).data), group_size)
       /\ LayersShrinkByGroupSize(LayerLens(rsum), group_size)
       /\ StackIsTrimmed(LayerLens(rsum))

\* C20 amended: after Reduce::update(parent) layer 0 has one value per
\* element of the parent, and each layer k+1 has length
\* ceil(len(layer k) / group_size), down to a layer of length <= 1.
C20_LayersShrinkFromParentLen ==
  (engine = "reduce" /\ call.kind = "update" /\ ~call.panic)
    => /\ LayerLens(rsum)[1] = Len(SourceOf(call.src).data)
       /\ LayersShrinkByGroupSize(LayerLens(rsum), group_size)
       /\ StackIsTrimmed(LayerLens(rsum))

\* An update of a parent of 18 elements with group_size 3 left layers of
\* 18, 6, 2 and 1 values.
C20_Witness ==
  /\ engine = "reduce" /\ call.kind = "update" /\ call.src = "v"
  /\ group_size = 3
  /\ LayerLens(rsum) = << 18, 6, 2, 1 >>

\* The closure of the rvec engine yields Some for an empty group.
SomeOnTruncation == IsSome(OpSum(<<>>, 0, 0, [rules |-> rules, log |-> <<>>]).ret)

\* The invocations op(&[], old, i) among the logged ones.
TruncationCalls(log) == SelectSeq(log, LAMBDA c : c.xs = <<>>)

\* C21: when op returns Some for a call op(&[], old_value, idx) made for an
\* index being truncated away, reduce panics: that call is the last one made,
\* and the vector keeps the length and values it had.
C21_SomeOnTruncationPanics ==
  (engine = "rvec" /\ call.kind = "reduce" /\ SomeOnTruncation
     /\ TruncationCalls(call.log) # <<>>)
    => /\ call.panic
       /\ Len(call.log) = 1
       /\ result.data = call.before

\* A closure that always sums was called for the index a swap_remove cut off.
C21_Witness ==
  /\ engine = "rvec" /\ call.kind = "reduce" /\ rules.name = "sum"
  /\ call.panic
  /\ Len(call.before) > Len(v.data)
  /\ call.log = << [xs |-> <<>>, old |-> call.before[Len(call.before)],
                    i |-> Len(call.before) - 1] >>

\* The invocations reduce owes for cutting a vector holding `before` down to
\* new_len values: one per index in [new_len, old_len), in ascending order,
\* each with the value stored there.
OwedTruncationCalls(before, new_len) ==
  [k \in 1..Max(Len(before) - new_len, 0) |->
     [xs |-> <<>>, old |-> before[new_len + k], i |-> new_len + k - 1]]

\* C30: reduce(source, group_size, op) leaves self with length
\* ceil(len(source) / group_size); when that is shorter than before, op(&[],
\* old_value, i) was invoked exactly once for each truncated index i in
\* [new_len, old_len), with the value stored at i, before op was invoked for
\* any retained group.
C30_TruncationCallsPrecedeResize ==
  (engine = "rvec" /\ call.kind = "reduce" /\ ~call.panic)
    => /\ Len(result.data) = CeilDiv(Len(SourceOf(call.src).data), group_size)
       /\ TruncationCalls(call.log) = OwedTruncationCalls(call.before, Len(result.data))
       /\ SubSeq(call.log, 1, Len(TruncationCalls(call.log))) = TruncationCalls(call.log)

\* Two values were cut off, and a retained group was recomputed afterwards.
C30_Witness ==
  /\ engine = "rvec" /\ call.kind = "reduce" /\ ~call.panic
  /\ Len(call.before) = Len(result.data) + 2
  /\ Len(call.log) > 2
  /\ call.log[3].xs # <<>>

\* Every checkpoint value an RVec holds, at any level.
Checkpoints(rv) == UNION {{rv.counts[L][b] : b \in 1..Len(rv.counts[L])} : L \in Levels}

\* The indices touched between an RVec and its successor.
TouchedSince(rv, succ) ==
  {i \in 0..(Len(succ.touched) - 1) : succ.touched[i + 1] > rv.count}

\* C26: every mutation of an RVec (push, indexed assignment, swap_remove)
\* strictly increases its counter, and afterwards the checkpoint at every
\* level for the bucket containing a touched index is >= every checkpoint
\* value recorded before the mutation.
C26_TouchStampsAllLevels ==
  [][v' # v
       => /\ v'.count > v.count
          /\ TouchedSince(v, v') # {}
          /\ \A i \in TouchedSince(v, v'), L \in Levels, c \in Checkpoints(v) :
                v'.counts[L][(i \div STRIDE[L]) + 1] >= c]_vars

\* A swap_remove touched two indices in different finest buckets of a vector
\* that had been stamped before.
C26_Witness ==
  /\ engine = "rvec" /\ call.kind = "none" /\ steps > 0
  /\ v.count >= 19
  /\ Len(v.data) = 16
  /\ v.counts[1][1] = v.count /\ v.counts[1][2] = v.count - 1
  /\ v.counts[2][1] = v.count

\* C28: after every update, a Reduce whose rules yield None for an unchanged
\* Summary exposes the same peek() value as a Reduce over the same parent
\* whose rules always yield Some.
C28_NoneWhenUnchangedIsPureOptimisation ==
  (engine = "refine" /\ call.kind = "update")
    => /\ ~call.panic
       /\ peek(rsum).value = peek(rall).value

\* An add of an item key the chunk already held: the caller's error that
\* fails ChunkStorage::add's assertion.
DuplicateAdded(st) ==
  \E c \in 1..Len(st.chunks.data) :
    \E m, n \in 1..Len(st.chunks.data[c].data.data) :
      m # n /\ st.chunks.data[c].data.data[m].k = st.chunks.data[c].data.data[n].k

\* C23: after any sequence of Storage operations (add, entry modify, modify,
\* remove, remove_chunk) the clean-up pass has not panicked and
\* Storage::validate() passes.
C23_StorageStaysValid ==
  engine \in {"index", "reduction"}
    => /\ storage.panic => (scall.kind = "add" /\ DuplicateAdded(storage))
       /\ ~storage.panic => StorageValidate(storage)

\* The stored elements of chunk key ck and item key k.
StoredUnder(st, ck, k) ==
  {x \in {StorageIter(st)[n] : n \in 1..Len(StorageIter(st))} :
     chunk_key(x) = ck /\ item_key(x) = k}

\* C24: after any sequence of add / remove / remove_chunk, Storage::get(id)
\* does not panic and returns Some(element) exactly when an element with
\* that chunk key and item key is stored, and None otherwise.
C24_GetReportsAbsenceAsNone ==
  (engine \in {"index", "reduction"} /\ ~storage.panic /\ ~ghost.entry)
    => \A k \in ItemKeys :
         /\ ~StorageGet(storage, chunk_key(X(k, 0)), k).panic
         /\ \A x \in StoredUnder(storage, chunk_key(X(k, 0)), k) :
               StorageGet(storage, chunk_key(X(k, 0)), k).value = Some(x)
         /\ StoredUnder(storage, chunk_key(X(k, 0)), k) = {}
               => StorageGet(storage, chunk_key(X(k, 0)), k).value = None

\* The chunk keys of a Storage, by chunk position.
ChunkKeysByPosition(st) ==
  [n \in 1..Len(st.chunks.data) |-> Some(st.chunks.data[n].chunk_key)]

\* C29: right after the gc that opens an index query or a reduce,
\* gc_chunk_list has one entry per chunk position of the Storage, entry i is
\* Some(key of the chunk at position i), no expectation on it failed, and the
\* per-chunk map of the index or reduction holds no chunk key that the
\* Storage lacks.
C29_GcListMirrorsChunks ==
  /\ (engine = "index" /\ scall.kind = "query")
       => /\ ~scall.panic
          /\ sindex.gc_chunk_list.data = ChunkKeysByPosition(storage)
          /\ \A ck \in DOMAIN sindex.index : Some(ck) \in Range(ChunkKeysByPosition(storage))
  /\ (engine = "reduction" /\ scall.kind = "reduce")
       => /\ ~scall.panic
          /\ reduction.gc_chunk_list.data = ChunkKeysByPosition(storage)
          /\ \A ck \in DOMAIN reduction.chunkwise_reductions :
                Some(ck) \in Range(ChunkKeysByPosition(storage))

\* A chunk was dropped and another moved into its position before the call.
C29_Witness ==
  /\ scall.kind \in {"query", "reduce"} /\ ~scall.panic
  /\ ghost.removed # {}
  /\ Len(storage.chunks.data) = 1
  /\ storage.chunks.data[1].chunk_key = 1

\* C22: a query matching the SecondaryIndex, or Reduction::reduce, evaluated
\* with a Storage other than the one the index or reduction was created for
\* panics on the id assertion and leaves the cached state as it was.
C22_ForeignStoragePanics ==
  scall.kind \in {"query_other", "reduce_other"}
    => /\ scall.panic
       /\ scall.kept

\* The stored elements indexed under a and under b by even_odd.
MatchingTwice(st, a, b) ==
  {x \in {StorageIter(st)[n] : n \in 1..Len(StorageIter(st))} :
     index_closure(x) = Some(a) /\ index_closure(x) = Some(b)}

\* C27: a query chaining two matching() filters on the same SecondaryIndex
\* completes, without panic and without waiting forever for a lock its own
\* thread holds, and yields exactly the elements indexed under both keys.
C27_SameIndexChainCompletes ==
  scall.kind = "query_same"
    => /\ ~scall.panic
       /\ ~scall.hung
       /\ Range(scall.result) = MatchingTwice(storage, scall.key[1], scall.key[2])

\* The elements a storage holds.
StoredElements(st) == {StorageIter(st)[n] : n \in 1..Len(StorageIter(st))}

StaleBucket(source, cnt, p) == source.counts[1][(p \div STRIDE[1]) + 1] > cnt

\* A candidate group: one of its source indices lies in such a bucket.
CandidateGroup(source, cnt, gs, g) ==
  \E p \in (g * gs)..(Min((g + 1) * gs, Len(source.data)) - 1) :
     StaleBucket(source, cnt, p)

\* The calls of op a reduce made outside its truncation loop.
RecalcCalls(log) == SelectSeq(log, LAMBDA c : c.xs # <<>>)

\* C31: outside the truncation calls, RVec::reduce passes to op only groups
\* that have a source index in a stride-16 bucket whose checkpoint exceeds
\* the parent_count the walk started from, and when the call returns
\* parent_count equals the source's counter.
C31_OnlyCandidateGroupsReachOp ==
  [][(engine = "rvec" /\ updates' = updates + 1 /\ ~call'.panic)
       => /\ \A n \in 1..Len(RecalcCalls(call'.log)) :
               CandidateGroup(SourceOf(call'.src),
                              validate_parent_id(result, SourceOf(call'.src),
                                                 ID_COUNTER).rv.parent_count,
                              group_size, RecalcCalls(call'.log)[n].i)
          /\ result'.parent_count = SourceOf(call'.src).count]_vars

\* A reduce of the 17-or-more-element vector that passed some groups to op
\* and skipped others, the result having seen this parent before.
C31_Witness ==
  /\ engine = "rvec"
  /\ call.kind = "reduce" /\ call.src = "v"
  /\ ~call.panic /\ ~call.was_reset
  /\ Len(v.data) > STRIDE[1]
  /\ Len(RecalcCalls(call.log)) >= 1
  /\ Len(RecalcCalls(call.log)) < (Len(v.data) + group_size - 1) \div group_size
  /\ result.parent_count = v.count

\* C32: Summarize::update never calls contribute or uncontribute with a
\* token equal to Token::default() (0 for the i64 tokens of summation_rules).
C32_DefaultTokensNeverReachCallbacks ==
  (engine = "summarize" /\ call.kind = "summarize")
    => \A n \in 1..Len(call.log) : call.log[n].token # 0

\* An update in which an element now mapping to the default token replaced a
\* contributed one: the old token was uncontributed at its index and nothing
\* was contributed there.
C32_Witness ==
  /\ engine = "summarize" /\ call.kind = "summarize" /\ call.src = "v"
  /\ ~reset_seen /\ updates >= 2
  /\ \E i \in 1..Len(v.data) :
       /\ v.data[i] = 0
       /\ ssum.tokens.data[i] = 0
       /\ \E n \in 1..Len(call.log) :
            call.log[n] = Callback("uncontribute", 1, i - 1)
       /\ \A n \in 1..Len(call.log) :
            ~(call.log[n].kind = "contribute" /\ call.log[n].i = i - 1)

\* C33: for a Summarize updated against one parent, the callbacks of each
\* index alternate: contribute finds no token contributed at its index, and
\* uncontribute names the token that is contributed there.
C33_CallbacksAlternatePerIndex ==
  (engine = "summarize" /\ ~reset_seen) => ssum.strict

\* An update after swap_remove(0) on a vector whose index 0 held a default
\* token: the last index was truncated away and its token uncontributed
\* there, and the element moved into index 0 was contributed at 0.
C33_Witness ==
  /\ engine = "summarize" /\ call.kind = "summarize" /\ call.src = "v"
  /\ ~reset_seen /\ updates >= 2
  /\ Len(v.data) >= 2
  /\ \E m, n \in 1..Len(call.log) :
       /\ m < n
       /\ call.log[m] = Callback("uncontribute", 1, Len(v.data))
       /\ call.log[n] = Callback("contribute", 1, 0)
  /\ Len(ssum.held) > Len(v.data)
  /\ \A i \in 1..Len(v.data) :
       ssum.held[i] = (IF v.data[i] = 0 THEN None ELSE Some(v.data[i]))

\* C34: IdxRange(r).intersect(b) does not panic and returns a Bitfield in
\* the block of b whose set bits are the bits of b whose indices lie in r.
C34_ClipKeepsBitsInsideRange ==
  (engine = "pure" /\ icall.kind = "clip")
    => /\ ~icall.out.panic
       /\ icall.out.bf.start = icall.args.bf.start
       /\ icall.out.bf.bits
            = {p \in icall.args.bf.bits :
                 /\ icall.args.bf.start * BITS + p >= icall.args.lo
                 /\ icall.args.bf.start * BITS + p < icall.args.hi}

\* The indices lo..(hi - 1) in ascending order.
Ascending(lo, hi) == [n \in 1..(hi - lo) |-> lo + n - 1]

\* C35: Bitfield::from_range called until None yields Bitfields in ascending
\* block order whose flattened indices are those of the range, each once and
\* ascending, and leaves the range empty; from_range_rev yields the same
\* indices in descending order; an empty range yields None at once.
C35_FromRangeCoversTheRange ==
  (engine = "pure" /\ icall.kind = "from_range")
    => /\ \A m, n \in 1..Len(icall.out.fore.seq) :
             m < n => icall.out.fore.seq[m].start < icall.out.fore.seq[n].start
       /\ FlattenBitfields(icall.out.fore.seq, FALSE)
            = Ascending(icall.args.lo, icall.args.hi)
       /\ icall.out.fore.start >= icall.out.fore.end
       /\ \A m, n \in 1..Len(icall.out.aft.seq) :
             m < n => icall.out.aft.seq[m].start > icall.out.aft.seq[n].start
       /\ FlattenBitfields(icall.out.aft.seq, TRUE)
            = Reversed(Ascending(icall.args.lo, icall.args.hi))
       /\ icall.out.aft.start >= icall.out.aft.end
       /\ icall.args.lo = icall.args.hi
            => (icall.out.fore.seq = <<>> /\ icall.out.aft.seq = <<>>)

\* A range that starts inside one block, covers the next whole and ends
\* inside a third.
C35_Witness ==
  /\ engine = "pure" /\ icall.kind = "from_range"
  /\ icall.args.lo = 63 /\ icall.args.hi = 131
  /\ Len(icall.out.fore.seq) = 3
  /\ icall.out.fore.seq[2] = [start |-> 1, bits |-> 0..(BITS - 1)]
  /\ Len(icall.out.aft.seq) = 3

\* The bits a Bitset holds in block b.
BlockBits(bs, b) ==
  UNION {IF bs[k].start = b THEN bs[k].bits ELSE {} : k \in 1..Len(bs)}

\* C36: Bitset::intersect(bitfield) returns a Bitfield at the block of its
\* argument whose bits are the argument's bits that the Bitset holds in that
\* block: none when the Bitset has no such block.
C36_BitsetIntersectIsBlockAnd ==
  (engine = "pure" /\ icall.kind = "bitset_intersect")
    => /\ icall.out.start = icall.args.bf.start
       /\ icall.out.bits = icall.args.bf.bits \cap BlockBits(icall.args.bs, icall.args.bf.start)
       /\ (\A k \in 1..Len(icall.args.bs) : icall.args.bs[k].start # icall.args.bf.start)
            => icall.out.bits = {}

\* A Bitset of three blocks asked for its middle block.
C36_Witness ==
  /\ engine = "pure" /\ icall.kind = "bitset_intersect"
  /\ Len(icall.args.bs) = 3 /\ icall.args.bf.start = 1
  /\ icall.args.bf.bits = {0, 5, 63}
  /\ icall.out = [start |-> 1, bits |-> {0}]

\* What the short circuits of IdxSet::intersection make of a and b: nothing
\* when either is Nothing, else the exact value of one if the other contains
\* it and nothing if not.
ShortCircuit(a, b) ==
  IF a.kind = "Nothing" \/ b.kind = "Nothing" THEN Nothing
  ELSE IF a.kind = "ExactValue"
       THEN (IF Contains(b, a.x) THEN ExactValue(a.x) ELSE Nothing)
       ELSE (IF Contains(a, b.x) THEN ExactValue(b.x) ELSE Nothing)

\* Whether one of the operands is Nothing or an exact value.
ShortCircuits(a, b) == {a.kind, b.kind} \cap {"Nothing", "ExactValue"} # {}

\* C38 as stated: intersecting with Nothing yields Nothing, and intersecting
\* with an exact value x yields ExactValue(x) when the other operand contains
\* x and Nothing otherwise, whatever the variant of the other operand.
C38_ShortCircuitsForEveryVariant ==
  (engine = "pure" /\ icall.kind = "intersection"
     /\ ShortCircuits(icall.args.a, icall.args.b))
    => icall.out = ShortCircuit(icall.args.a, icall.args.b)

\* What does hold of the short circuits: the same when neither operand is an
\* Intersection; when one is, the outcome is an Intersection that contains
\* exactly the indices both operands contain.
ShortCircuitsUnlessIntersection ==
  (engine = "pure" /\ icall.kind = "intersection"
     /\ ShortCircuits(icall.args.a, icall.args.b))
    => IF "Intersection" \in {icall.args.a.kind, icall.args.b.kind}
       THEN /\ icall.out.kind = "Intersection"
            /\ \A idx \in ProbeIdxs :
                 Contains(icall.out, idx)
                   <=> (Contains(icall.args.a, idx) /\ Contains(icall.args.b, idx))
       ELSE icall.out = ShortCircuit(icall.args.a, icall.args.b)

\* C37: the change counter of an RVec grows by exactly 1 with a push, which
\* stamps the new last index, by exactly 1 with an indexed mutable access,
\* which stamps the index, and by exactly 2 with swap_remove(i), which stamps
\* the old last index and then i; a vector made by n pushes starts at n.
C37_CounterCountsTouches ==
  /\ (engine \in {"rvec", "reduce", "summarize"} /\ steps = 0) => v.count = Len(v.data)
  /\ [][(engine \in {"rvec", "reduce", "summarize"} /\ steps' = steps + 1)
          => \/ /\ Len(v'.data) = Len(v.data) + 1
                /\ v'.count = v.count + 1
                /\ v'.touched[Len(v'.data)] = v'.count
             \/ /\ Len(v'.data) = Len(v.data)
                /\ v'.count = v.count + 1
                /\ \E i \in 1..Len(v.data) :
                     /\ v'.touched[i] = v'.count
                     /\ \A k \in 1..Len(v.data) : k # i => v'.data[k] = v.data[k]
             \/ /\ Len(v'.data) = Len(v.data) - 1
                /\ v'.count = v.count + 2
                /\ \E i \in 0..(Len(v.data) - 1) :
                     /\ v'.data = VecSwapRemove(v.data, i)
                     /\ v'.touched[i + 1] = v.count + 2
                     /\ v'.touched[Len(v.data)] >= v.count + 1]_vars

\* A vector of 17 pushes after one more push, one indexed assignment and one
\* swap_remove: 18 + 1 + 2.
C37_Witness ==
  /\ engine = "rvec" /\ steps = 3
  /\ Len(v.data) = 17
  /\ v.count = 21

\* Whether the running call has returned or panicked.
Returned == icall.phase \in {"done", "panicked"}

\* What one loop turn does to the locals: a walk never moves its cursor
\* back, moves it forward on a turn that stays in its loop, enters an inner
\* loop with a stop beyond the cursor, and returns the groups needs_recalc
\* computes; a turn of the layer loop builds a layer shorter than the one
\* below it.
LoopTurnAdvances ==
  /\ (icall'.kind = "walk")
       => /\ icall'.i >= icall.i
          /\ (icall'.phase = icall.phase /\ icall' # icall) => (icall'.i > icall.i)
          /\ (icall.phase = "while" /\ icall'.phase \in {"push", "skip"})
               => (icall'.stop > icall'.i)
          /\ (icall'.phase = "done")
               => (icall'.needs_recalc
                     = needs_recalc(v, icall.expected_count, group_size))
  /\ (icall'.kind = "update" /\ icall.phase = "while" /\ icall'.phase = "while")
       => (Len(icall'.st.reductions[icall'.st.layer + 1].data)
             < Len(icall.st.reductions[icall.st.layer + 1].data))

\* C39: every RVec::reduce walk and every Reduce::update returns (Reduce::new
\* panics for a group size below 2), and every loop turn on the way advances:
\* the walk's cursor moves forward, the layer loop's new layer is shorter
\* than the one below it.
C39_LoopsTerminate == <>Returned /\ [][LoopTurnAdvances]_vars

\* A walk over 33 elements in groups of 3 that returned after skipping the
\* first bucket and pushing groups of the second.
C39_Witness ==
  /\ engine = "loops" /\ icall.kind = "walk" /\ icall.phase = "done"
  /\ Len(v.data) = 33 /\ group_size = 3
  /\ icall.expected_count = 33 /\ v.count = 34
  /\ icall.needs_recalc # <<>>
  /\ Len(icall.needs_recalc) < 11

====
